---------------------------- MODULE Spec2Model ----------------------------
(***************************************************************************)
(* Model of the cross-chain MEV matcher (src/analysis/cross_chain_match.py) *)
(* together with the swap decoder it calls (src/blockchains/swap.py) and    *)
(* the chain services it queries (src/blockchains/polygon.py, ethereum.py). *)
(***************************************************************************)
EXTENDS Integers, Sequences, FiniteSets, TLC

VARIABLES
    chain,            \* the Polygon chain: its Transfer logs, ordered by block number
    blocks,           \* block_to_cross_chain_mev_transactions, in iteration order
    bi, ti,           \* position of the two loops: block index, transaction index
    pc,               \* position inside the loop body (the call about to be made)
    block_timestamp,  \* local block_timestamp of the outer loop
    locals,           \* the locals of the candidate being matched
    cross_chain_mev_extractions,  \* the list of successful records
    cross_chain_mev_failed,       \* the list of failed (bridged back) records
    outcome,          \* per candidate hash: how its loop body ended
    searches,         \* per candidate hash: the log searches made, with results
    rpc_faults,       \* number of node calls that raised so far
    tol_in,           \* the arguments of a function applied on its own (filter, decoder, chunking)
    tol_out,          \* its answer: None before the call, <<answer>> after
    ai,               \* position of the analyzer's loop over the extractions
    analysed,         \* per position of that loop: how the iteration ended
    extractions_result,   \* the characters of the file extractions_result.json
    extractions_failed,   \* the characters of the file extractions_failed.json
    block_number_start,   \* analyze_data: start of the next batch
    block_number_end,     \* analyze_data: the last block of the run
    counts,           \* analyze_data: the three running totals
    database,         \* the stored transactions, in the order the query returns them
    sel_out,          \* the selector's answer: None or <<dict>>
    queue,            \* DataFetcher: the items of the queue.Queue q of a fetch
    unfinished_tasks, \* DataFetcher: the queue's count of unfinished tasks
    consumers,        \* DataFetcher: per worker thread, its position and its item
    main,             \* DataFetcher: position of the thread that started the workers
    fetch_faults,     \* DataFetcher: number of exceptions raised in workers so far
    saved,            \* the numbers of the blocks in the store
    mev_added,        \* the numbers of the stored blocks marked mev_added
    requests          \* the requests answered by ZeroMev: block_number and count

\* the state of the fetch pipeline (src/api_utilities/fetch.py)
fetch_vars == <<queue, unfinished_tasks, consumers, main, fetch_faults, saved,
                mev_added, requests>>

\* no fetch is running
FetchIdle ==
    /\ queue = <<>> /\ unfinished_tasks = 0 /\ consumers = <<>> /\ main = "idle"
    /\ fetch_faults = 0 /\ saved = {} /\ mev_added = {} /\ requests = {}

\* the state of the application around the matcher
app_vars == <<ai, analysed, extractions_result, extractions_failed,
              block_number_start, block_number_end, counts, database, sel_out,
              fetch_vars>>

vars == <<chain, blocks, bi, ti, pc, block_timestamp, locals,
          cross_chain_mev_extractions, cross_chain_mev_failed, outcome,
          searches, rpc_faults, tol_in, tol_out, app_vars>>

matcher_vars == <<chain, blocks, bi, ti, pc, block_timestamp, locals,
                  cross_chain_mev_extractions, cross_chain_mev_failed, outcome,
                  searches, rpc_faults>>

(***************************************************************************)
(* Token amounts are uint256 values and Python ints are unbounded, while    *)
(* the tolerance bounds amount * 1.01 and amount * 0.99 are Python floats   *)
(* (IEEE-754 doubles).  Amounts are therefore modelled as unbounded         *)
(* naturals: little-endian sequences of limbs in base 2^12 with no leading  *)
(* zero limb (zero is the empty sequence).                                  *)
(***************************************************************************)
Base == 2^12

RECURSIVE ToBig(_)
ToBig(n) == IF n = 0 THEN <<>> ELSE <<n % Base>> \o ToBig(n \div Base)

RECURSIVE Trim(_)
Trim(x) ==
    IF x = <<>> THEN <<>>
    ELSE IF x[Len(x)] = 0 THEN Trim(SubSeq(x, 1, Len(x) - 1))
    ELSE x

\* carry propagation over raw limbs (each possibly >= Base), least limb first
RECURSIVE NormFrom(_, _, _)
NormFrom(raw, i, c) ==
    IF i > Len(raw) THEN ToBig(c)
    ELSE <<(raw[i] + c) % Base>> \o NormFrom(raw, i + 1, (raw[i] + c) \div Base)

Normalize(raw) == Trim(NormFrom(raw, 1, 0))

RECURSIVE ColSum(_, _, _, _)
ColSum(x, y, k, i) ==
    IF i > Len(x) \/ i > k THEN 0
    ELSE (IF k + 1 - i <= Len(y) THEN x[i] * y[k + 1 - i] ELSE 0)
         + ColSum(x, y, k, i + 1)

MulBig(x, y) ==
    IF x = <<>> \/ y = <<>> THEN <<>>
    ELSE Normalize([k \in 1..(Len(x) + Len(y) - 1) |-> ColSum(x, y, k, 1)])

AddBig(x, y) ==
    LET n == IF Len(x) > Len(y) THEN Len(x) ELSE Len(y)
    IN  Normalize([i \in 1..n |-> (IF i <= Len(x) THEN x[i] ELSE 0)
                                  + (IF i <= Len(y) THEN y[i] ELSE 0)])

RECURSIVE BitLenSmall(_)
BitLenSmall(n) == IF n = 0 THEN 0 ELSE 1 + BitLenSmall(n \div 2)

BitLen(x) == IF x = <<>> THEN 0 ELSE 12 * (Len(x) - 1) + BitLenSmall(x[Len(x)])

\* floor(x / 2^s)
ShiftRight(x, s) ==
    LET q == s \div 12
        t == s % 12
        n == Len(x) - q
    IN  IF n <= 0 THEN <<>>
        ELSE Trim([i \in 1..n |->
                 (x[q + i] \div 2^t)
                 + (IF q + i < Len(x) THEN (x[q + i + 1] % 2^t) * 2^(12 - t) ELSE 0)])

\* x mod 2^s
LowBits(x, s) ==
    LET q == s \div 12
        t == s % 12
    IN  IF Len(x) <= q THEN x
        ELSE Trim(SubSeq(x, 1, q) \o <<x[q + 1] % 2^t>>)

\* x * 2^s
ShiftLeft(x, s) ==
    LET q == s \div 12
        t == s % 12
    IN  IF x = <<>> THEN <<>>
        ELSE [i \in 1..q |-> 0] \o Normalize([i \in 1..Len(x) |-> x[i] * 2^t])

\* -1, 0, 1 as x < y, x = y, x > y
RECURSIVE CmpFrom(_, _, _)
CmpFrom(x, y, i) ==
    IF i = 0 THEN 0
    ELSE IF x[i] < y[i] THEN -1
    ELSE IF x[i] > y[i] THEN 1
    ELSE CmpFrom(x, y, i - 1)

Cmp(x, y) ==
    IF Len(x) < Len(y) THEN -1
    ELSE IF Len(x) > Len(y) THEN 1
    ELSE CmpFrom(x, y, Len(x))

(***************************************************************************)
(* Python float arithmetic.  A double carries 53 significant bits; a        *)
(* conversion or a product that needs more is rounded to nearest, ties to   *)
(* even.  RoundToDouble(x) is the integer a double holds for the integer x  *)
(* (amounts stay far below the double range, so there is no overflow).      *)
(***************************************************************************)
RoundToDouble(x) ==
    LET n == BitLen(x)
        s == n - 53
        q == ShiftRight(x, s)
        r == LowBits(x, s)
        c == Cmp(r, ShiftLeft(<<1>>, s - 1))
        up == c = 1 \/ (c = 0 /\ q[1] % 2 = 1)
    IN  IF n <= 53 THEN x
        ELSE ShiftLeft(IF up THEN Normalize(NormFrom(q, 1, 1)) ELSE q, s)

\* the literal 1.01 is the double 0x1.028f5c28f5c29p+0 = Mantissa101 / 2^52
Mantissa101 == <<3113, 2293, 1474, 655, 16>>
\* the literal 0.99 is the double 0x1.fae147ae147aep-1 = Mantissa099 / 2^53
Mantissa099 == <<1966, 3604, 1146, 2785, 31>>

\* amount * 1.01 as a float, scaled by 2^52: int -> float, then one rounded product
UpperBound(amount) == RoundToDouble(MulBig(RoundToDouble(amount), Mantissa101))
\* amount * 0.99 as a float, scaled by 2^53
LowerBound(amount) == RoundToDouble(MulBig(RoundToDouble(amount), Mantissa099))

\* value <= amount * 1.01 and value >= amount * 0.99 (int against float compares exactly)
AmountMatches(value, amount) ==
    /\ Cmp(ShiftLeft(value, 52), UpperBound(amount)) <= 0
    /\ Cmp(ShiftLeft(value, 53), LowerBound(amount)) >= 0

(***************************************************************************)
(* Bounds of the model.                                                     *)
(***************************************************************************)
\* most Transfer logs on the modelled stretch of the Polygon chain
MaxLogs == 4
\* most candidates in one batch
MaxBatch == 2
\* most node calls that raise during one batch
MaxRpcFaults == 1

(***************************************************************************)
(* Domain values (src/domain.py) and the two chains' data.                  *)
(***************************************************************************)
ADDRESS_ZERO == "0x0000"
NONE == "NONE"
FROM_ETHEREUM == "FROM_ETHEREUM"
TO_ETHEREUM == "TO_ETHEREUM"

\* the searcher's address on Polygon, a pool, the Ethereum-side bridge
Searcher == "0xSearcher"
Pool == "0xPool"
POLYGON_ERC20_BRIDGE_ADDRESSES == {"0x40ec", "0x9923", "0x21ad"}

\* Optional values: None is the empty sequence, a present value v is <<v>>;
\* an Optional[list] is the list itself, None being the empty list (the
\* decoder never returns an empty list, it returns None instead)
None == <<>>

POLYGON_AVERAGE_BLOCK_TIME == 3
NUMBER_OF_BLOCKS_IN_5_HOURS == 18000 \div POLYGON_AVERAGE_BLOCK_TIME
NUMBER_OF_BLOCKS_IN_1_HOUR == 3600 \div POLYGON_AVERAGE_BLOCK_TIME
max_block_range == 600

\* token0() and token1() of the pools on either chain
PoolTokens ==
    [poolWU |-> [token0 |-> "WETH", token1 |-> "USDC"],
     poolDW |-> [token0 |-> "DAI", token1 |-> "WETH"],
     ppUW |-> [token0 |-> "pUSDC", token1 |-> "pWETH"],
     ppDW |-> [token0 |-> "pDAI", token1 |-> "pWETH"]]

V2(address, logIndex, a0In, a1In, a0Out, a1Out) ==
    [address |-> address, logIndex |-> logIndex,
     args |-> [amount0In |-> a0In, amount1In |-> a1In,
               amount0Out |-> a0Out, amount1Out |-> a1Out]]

V3(address, logIndex, a0, a1) ==
    [address |-> address, logIndex |-> logIndex,
     args |-> [amount0 |-> a0, amount1 |-> a1]]

Lock(rootToken, depositReceiver, amount) ==
    [args |-> [rootToken |-> rootToken, depositReceiver |-> depositReceiver,
               amount |-> amount]]

Transfer(address, from, to, value, blockNumber, transactionHash) ==
    [address |-> address, blockNumber |-> blockNumber,
     transactionHash |-> transactionHash,
     args |-> [from |-> from, to |-> to, value |-> value]]

NoReceipt == [v2 |-> <<>>, v3 |-> <<>>, locked_erc20 |-> <<>>,
              locked_mintable_erc20 |-> <<>>, transfers |-> <<>>]

\* the transaction receipts the Ethereum node serves, by transaction hash:
\* decoded Uniswap V2 and V3 Swap logs, the two kinds of bridge lock logs
\* and the Transfer logs
EthereumReceipts ==
    [e1 |-> [NoReceipt EXCEPT
                !.v2 = <<V2("poolWU", 5, 3, 0, 0, 1000)>>,
                !.v3 = <<V3("poolDW", 2, 50, -3)>>,
                !.locked_erc20 = <<Lock("USDC", Searcher, ToBig(1000))>>],
     e2 |-> [NoReceipt EXCEPT
                !.v2 = <<V2("poolWU", 1, 3, 0, 0, 1000)>>,
                !.locked_erc20 = <<Lock("USDC", Searcher, ToBig(1000))>>,
                !.locked_mintable_erc20 = <<Lock("USDC", Searcher, ToBig(1000))>>],
     e3 |-> [NoReceipt EXCEPT
                !.v2 = <<V2("poolDW", 1, 0, 3, 50, 0)>>,
                !.locked_erc20 = <<Lock("DAI", Searcher, ToBig(1000))>>],
     e4 |-> [NoReceipt EXCEPT
                !.locked_erc20 = <<Lock("USDC", Searcher, ToBig(1000))>>],
     e5 |-> [NoReceipt EXCEPT
                !.v3 = <<V3("poolWU", 4, -3, 1000)>>,
                !.transfers = <<Transfer("USDC", Pool, "0x40ec", ToBig(1000), 1100, "e5"),
                                Transfer("USDC", "0x40ec", Searcher, ToBig(1000), 1100, "e5")>>],
     e6 |-> [NoReceipt EXCEPT
                !.v2 = <<V2("poolWU", 1, 3, 0, 0, 1000), V2("poolDW", 6, 50, 0, 0, 3)>>,
                !.transfers = <<Transfer("USDC", "0x40ec", Searcher, ToBig(1000), 1100, "e6")>>],
     e0 |-> [NoReceipt EXCEPT
                !.v2 = <<V2("poolWU", 1, 3, 0, 0, 1000)>>]]

\* from and to of the transactions on either chain
TransactionParties == [from |-> "0xEOA", to |-> "0xContract"]

\* the candidate transactions the selector can hand over (src/domain.py Transaction)
Candidate(hash, block_number, index, interaction) ==
    [block_number |-> block_number, transaction_hash |-> hash,
     transaction_index |-> index, mev_type |-> "SWAP",
     polygon_bridge_interaction |-> interaction, coinbase_transfer_value |-> 0]

CandidateUniverse ==
    <<Candidate("e1", 100, 0, FROM_ETHEREUM), Candidate("e2", 100, 1, FROM_ETHEREUM),
      Candidate("e3", 100, 2, FROM_ETHEREUM), Candidate("e4", 100, 3, FROM_ETHEREUM),
      Candidate("e0", 100, 4, FROM_ETHEREUM),
      Candidate("e5", 1100, 0, TO_ETHEREUM), Candidate("e6", 1100, 1, TO_ETHEREUM)>>

\* the stored timestamp of the Ethereum blocks
EthereumBlockTimestamps == [b \in {100, 1100} |-> IF b = 100 THEN 19999 ELSE 24001]

\* tokens[] of the mapped token list the bridge API serves
TokenMapping ==
    <<[originTokenAddress |-> "WETH",
       wrappedTokens |-> <<[chainId |-> 137, wrappedTokenAddress |-> "pWETH"]>>],
      [originTokenAddress |-> "DAI",
       wrappedTokens |-> <<[chainId |-> 1101, wrappedTokenAddress |-> "zDAI"]>>],
      [originTokenAddress |-> "USDC",
       wrappedTokens |-> <<[chainId |-> 1101, wrappedTokenAddress |-> "zUSDC"],
                           [chainId |-> 137, wrappedTokenAddress |-> "pUSDC"]>>]>>

\* the Transfer logs that may be on the Polygon chain, ordered by block number
LogUniverse ==
    <<Transfer("pUSDC", ADDRESS_ZERO, Searcher, ToBig(1005), 10000, "pm1"),
      Transfer("pUSDC", ADDRESS_ZERO, Searcher, ToBig(989), 10001, "pm3"),
      Transfer("pUSDC", ADDRESS_ZERO, Searcher, ToBig(1010), 10002, "pm2"),
      Transfer("pDAI", ADDRESS_ZERO, Searcher, ToBig(1000), 10003, "px1"),
      Transfer("pUSDC", Searcher, Pool, ToBig(998), 10010, "ps1"),
      Transfer("pUSDC", Searcher, Pool, ToBig(990), 10020, "ps2"),
      Transfer("pUSDC", Pool, Searcher, ToBig(1000), 10600, "pi1"),
      Transfer("pUSDC", Searcher, ADDRESS_ZERO, ToBig(1010), 10700, "pb1"),
      Transfer("pUSDC", Searcher, ADDRESS_ZERO, ToBig(1000), 11201, "pb2")>>

\* the transaction receipts the Polygon node serves
PolygonReceipts ==
    [pm1 |-> NoReceipt, pm2 |-> NoReceipt, pm3 |-> NoReceipt, px1 |-> NoReceipt,
     ps1 |-> [NoReceipt EXCEPT !.v2 = <<V2("ppUW", 3, 998, 0, 0, 4)>>],
     ps2 |-> [NoReceipt EXCEPT !.v2 = <<V2("ppUW", 3, 990, 0, 0, 4)>>,
                               !.v3 = <<V3("ppUW", 8, 990, -4)>>],
     pi1 |-> [NoReceipt EXCEPT !.v2 = <<V2("ppUW", 9, 0, 4, 1000, 0)>>,
                               !.v3 = <<V3("ppDW", 4, 70, -4)>>],
     pb1 |-> NoReceipt,
     pb2 |-> [NoReceipt EXCEPT !.v3 = <<V3("ppUW", 2, -1000, 4)>>]]

(***************************************************************************)
(* Results of calls: a returned value, or a raised exception with payload.  *)
(***************************************************************************)
Return(v) == [raised |-> "None", value |-> v]
Raise(kind, payload) == [raised |-> kind, payload |-> payload]

(***************************************************************************)
(* PolygonService.get_transfer_logs (src/blockchains/polygon.py)            *)
(***************************************************************************)
\* the node's answer to one Transfer().get_logs(fromBlock, toBlock) on a token
GetLogs(token_address, fromBlock, toBlock) ==
    SelectSeq(chain, LAMBDA l : /\ l.address = token_address
                                /\ l.blockNumber >= fromBlock
                                /\ l.blockNumber <= toBlock)

\* a variant whose full chunks end on the first block of the next chunk
ChunkEnd_shared(start_block) == start_block + max_block_range

\* toBlock of a chunk that is not the last
ChunkEnd(start_block) == start_block + max_block_range - 1

\* the block ranges of the get_logs calls, in the order the loop issues them
RECURSIVE LogQueries(_, _)
LogQueries(start_block, to_block) ==
    IF start_block + max_block_range < to_block
    THEN <<[fromBlock |-> start_block, toBlock |-> ChunkEnd(start_block)]>>
         \o LogQueries(start_block + max_block_range, to_block)
    ELSE <<[fromBlock |-> start_block, toBlock |-> to_block]>>

\* logs += get_logs(...) over the queries
get_transfer_logs(start_block, to_block, token_address) ==
    LET queries == LogQueries(start_block, to_block)
        logs[n \in 0..Len(queries)] ==
            IF n = 0 THEN <<>>
            ELSE logs[n - 1] \o GetLogs(token_address, queries[n].fromBlock,
                                        queries[n].toBlock)
    IN  logs[Len(queries)]

(***************************************************************************)
(* CrossChainMatch.__match_polygon_transactions                             *)
(***************************************************************************)
\* a variant whose bridge events need not involve the party
RoleMatches_anyone(transfer_log, is_bridge_transaction, direction, reverse_direction, sender_or_receiver) ==
    IF is_bridge_transaction
    THEN transfer_log.args[direction] = ADDRESS_ZERO
    ELSE /\ transfer_log.args[direction] = sender_or_receiver
         /\ transfer_log.args[reverse_direction] # ADDRESS_ZERO

\* a variant whose plain transfers are always out of the party
RoleMatches_out(transfer_log, is_bridge_transaction, direction, reverse_direction, sender_or_receiver) ==
    IF is_bridge_transaction
    THEN /\ transfer_log.args[direction] = ADDRESS_ZERO
         /\ transfer_log.args[reverse_direction] = sender_or_receiver
    ELSE /\ transfer_log.args.from = sender_or_receiver
         /\ transfer_log.args.to # ADDRESS_ZERO

RoleMatches(transfer_log, is_bridge_transaction, direction, reverse_direction, sender_or_receiver) ==
    IF is_bridge_transaction
    THEN /\ transfer_log.args[direction] = ADDRESS_ZERO
         /\ transfer_log.args[reverse_direction] = sender_or_receiver
    ELSE /\ transfer_log.args[direction] = sender_or_receiver
         /\ transfer_log.args[reverse_direction] # ADDRESS_ZERO

MatchedLogs(transfer_logs, amount, is_bridge_transaction, polygon_bridge_interaction, sender_or_receiver) ==
    LET direction ==
            IF polygon_bridge_interaction = FROM_ETHEREUM THEN "from" ELSE "to"
        reverse_direction ==
            IF polygon_bridge_interaction = FROM_ETHEREUM THEN "to" ELSE "from"
    IN  SelectSeq(transfer_logs,
                  LAMBDA l : /\ AmountMatches(l.args.value, amount)
                             /\ RoleMatches(l, is_bridge_transaction, direction,
                                            reverse_direction, sender_or_receiver))

\* a variant that picks the first of several logs
SingleMatch_first(matched_logs) ==
    IF Len(matched_logs) = 0
    THEN Raise("MatchedLogsError", matched_logs)
    ELSE Return(matched_logs[1])

SingleMatch(matched_logs) ==
    IF Len(matched_logs) # 1
    THEN Raise("MatchedLogsError", matched_logs)
    ELSE Return(matched_logs[1])

match_polygon_transactions(from_block, to_block, polygon_token, amount, is_bridge_transaction, polygon_bridge_interaction, sender_or_receiver) ==
    SingleMatch(MatchedLogs(get_transfer_logs(from_block, to_block, polygon_token),
                            amount, is_bridge_transaction,
                            polygon_bridge_interaction, sender_or_receiver))

(***************************************************************************)
(* SwapProcessor (src/blockchains/swap.py)                                  *)
(***************************************************************************)
Swap(token_in, token_out, amount_in, amount_out, event_index) ==
    [token_in |-> token_in, token_out |-> token_out, amount_in |-> amount_in,
     amount_out |-> amount_out, event_index |-> event_index]

process_v2_swap(log) ==
    IF log.args.amount0In = 0
    THEN Swap(PoolTokens[log.address].token1, PoolTokens[log.address].token0,
              log.args.amount1In, log.args.amount0Out, log.logIndex)
    ELSE Swap(PoolTokens[log.address].token0, PoolTokens[log.address].token1,
              log.args.amount0In, log.args.amount1Out, log.logIndex)

process_v3_swap(log) ==
    IF log.args.amount0 < 0
    THEN Swap(PoolTokens[log.address].token1, PoolTokens[log.address].token0,
              log.args.amount1, -log.args.amount0, log.logIndex)
    ELSE Swap(PoolTokens[log.address].token0, PoolTokens[log.address].token1,
              log.args.amount0, -log.args.amount1, log.logIndex)

\* list.sort(key=event_index): a stable sort, here by insertion
RECURSIVE InsertSwap(_, _)
InsertSwap(sorted, swap) ==
    IF sorted = <<>> THEN <<swap>>
    ELSE IF sorted[Len(sorted)].event_index <= swap.event_index
         THEN Append(sorted, swap)
         ELSE Append(InsertSwap(SubSeq(sorted, 1, Len(sorted) - 1), swap),
                     sorted[Len(sorted)])

RECURSIVE SortSwaps(_)
SortSwaps(swaps) ==
    IF swaps = <<>> THEN <<>>
    ELSE InsertSwap(SortSwaps(SubSeq(swaps, 1, Len(swaps) - 1)), swaps[Len(swaps)])

\* a variant that checks nothing
ChainBroken_never(all_swaps) == FALSE

\* the loop over adjacent pairs of the sorted swaps
ChainBroken(all_swaps) ==
    \E i \in 1..(Len(all_swaps) - 1) :
        all_swaps[i].token_out # all_swaps[i + 1].token_in

\* a variant that leaves the swaps in the order of decoding
ProcessReceipt_unsorted(receipt, transaction_hash) ==
    LET all_swaps == [i \in 1..Len(receipt.v2) |-> process_v2_swap(receipt.v2[i])]
                     \o [i \in 1..Len(receipt.v3) |-> process_v3_swap(receipt.v3[i])]
    IN  IF Len(all_swaps) = 0 THEN Return(None)
        ELSE IF Len(all_swaps) > 1 /\ ChainBroken(all_swaps)
             THEN Raise("SwapProcessorError", transaction_hash)
             ELSE Return(all_swaps)

ProcessReceipt(receipt, transaction_hash) ==
    LET all_swaps == [i \in 1..Len(receipt.v2) |-> process_v2_swap(receipt.v2[i])]
                     \o [i \in 1..Len(receipt.v3) |-> process_v3_swap(receipt.v3[i])]
        sorted == SortSwaps(all_swaps)
    IN  IF Len(all_swaps) = 0 THEN Return(None)
        ELSE IF Len(sorted) > 1 /\ ChainBroken(sorted)
             THEN Raise("SwapProcessorError", transaction_hash)
             ELSE Return(sorted)

\* SwapProcessor(blockchain_service).process_transaction(transaction_hash)
process_transaction(blockchain_service, transaction_hash) ==
    ProcessReceipt(IF blockchain_service = "ethereum"
                   THEN EthereumReceipts[transaction_hash]
                   ELSE PolygonReceipts[transaction_hash],
                   transaction_hash)

(***************************************************************************)
(* EthereumService (src/blockchains/ethereum.py) and the bridge and block   *)
(* lookups (src/api_utilities)                                              *)
(***************************************************************************)
get_transaction_from_and_to(transaction_hash) ==
    <<TransactionParties.from, TransactionParties.to>>

\* a variant that takes the first of several lock events
get_from_ethereum_bridge_operation_information_first(transaction_hash) ==
    LET receipt == EthereumReceipts[transaction_hash]
        logs == receipt.locked_erc20 \o receipt.locked_mintable_erc20
    IN  IF Len(logs) >= 1
        THEN Return(<<logs[1].args.rootToken, logs[1].args.depositReceiver,
                      logs[1].args.amount>>)
        ELSE Raise("EthereumServiceError", transaction_hash)

get_from_ethereum_bridge_operation_information(transaction_hash) ==
    LET receipt == EthereumReceipts[transaction_hash]
        logs == receipt.locked_erc20 \o receipt.locked_mintable_erc20
    IN  IF Len(logs) = 1
        THEN Return(<<logs[1].args.rootToken, logs[1].args.depositReceiver,
                      logs[1].args.amount>>)
        ELSE Raise("EthereumServiceError", transaction_hash)

RECURSIVE FirstFromBridge(_, _)
FirstFromBridge(decoded_logs, transaction_hash) ==
    IF decoded_logs = <<>> THEN Raise("EthereumServiceError", transaction_hash)
    ELSE IF Head(decoded_logs).args.from \in POLYGON_ERC20_BRIDGE_ADDRESSES
         THEN Return(<<Head(decoded_logs).address, Head(decoded_logs).args.to,
                       Head(decoded_logs).args.value>>)
         ELSE FirstFromBridge(Tail(decoded_logs), transaction_hash)

get_to_ethereum_bridge_operation_information(transaction_hash) ==
    FirstFromBridge(EthereumReceipts[transaction_hash].transfers, transaction_hash)

RECURSIVE FirstWrapped(_)
FirstWrapped(wrappedTokens) ==
    IF wrappedTokens = <<>> THEN None
    ELSE IF Head(wrappedTokens).chainId = 137
         THEN <<Head(wrappedTokens).wrappedTokenAddress>>
         ELSE FirstWrapped(Tail(wrappedTokens))

RECURSIVE MappedFrom(_, _)
MappedFrom(token_mapping, ethereum_token) ==
    IF token_mapping = <<>> THEN Raise("PolygonBridgeInteractorError", ethereum_token)
    ELSE IF /\ Head(token_mapping).originTokenAddress = ethereum_token
            /\ FirstWrapped(Head(token_mapping).wrappedTokens) # None
         THEN Return(FirstWrapped(Head(token_mapping).wrappedTokens)[1])
         ELSE MappedFrom(Tail(token_mapping), ethereum_token)

get_polygon_mapped_token(ethereum_token) == MappedFrom(TokenMapping, ethereum_token)

\* the block lookup service: Polygon block b carries the timestamp 2 * b
find_polygon_block_before_timestamp(timestamp) == timestamp \div 2
find_polygon_block_after_timestamp(timestamp) == (timestamp + 1) \div 2

get_block_timestamp(block_number) == EthereumBlockTimestamps[block_number]

(***************************************************************************)
(* Records of src/domain.py                                                 *)
(***************************************************************************)
EthereumLeg(token_address, transaction_hash, searcher_eoa_address, searcher_contract_address, swaps) ==
    [token_address |-> token_address, transaction_hash |-> transaction_hash,
     searcher_eoa_address |-> searcher_eoa_address,
     searcher_contract_address |-> searcher_contract_address,
     swaps |-> swaps, gas_paid |-> None]

\* a variant with the two transaction hashes exchanged
PolygonLeg_exchanged(token_address, bridge_transaction_hash, swap_transaction_hash, searcher_eoa_address, searcher_contract_address, swaps) ==
    [token_address |-> token_address,
     bridge_transaction_hash |-> swap_transaction_hash,
     swap_transaction_hash |-> bridge_transaction_hash,
     searcher_eoa_address |-> searcher_eoa_address,
     searcher_contract_address |-> searcher_contract_address,
     swaps |-> swaps, bridge_transaction_gas_paid |-> None,
     swap_transaction_gas_paid |-> None]

PolygonLeg(token_address, bridge_transaction_hash, swap_transaction_hash, searcher_eoa_address, searcher_contract_address, swaps) ==
    [token_address |-> token_address,
     bridge_transaction_hash |-> bridge_transaction_hash,
     swap_transaction_hash |-> swap_transaction_hash,
     searcher_eoa_address |-> searcher_eoa_address,
     searcher_contract_address |-> searcher_contract_address,
     swaps |-> swaps, bridge_transaction_gas_paid |-> None,
     swap_transaction_gas_paid |-> None]

CrossChainMevExtraction(ethereum_leg, polygon_leg, direction, amount_bridged) ==
    [type |-> "CrossChainMevExtraction", ethereum_leg |-> ethereum_leg,
     polygon_leg |-> polygon_leg, direction |-> direction,
     amount_bridged |-> amount_bridged, is_cyclic_arbitrage |-> FALSE,
     profit_amount |-> None, profit_token_symbol |-> None]

CrossChainMevFailedExtraction(ethereum_leg, bridge_from_ethereum_transaction_hash, bridge_to_ethereum_transaction_hash, direction, amount_bridged) ==
    [type |-> "CrossChainMevFailedExtraction", ethereum_leg |-> ethereum_leg,
     bridge_from_ethereum_transaction_hash |-> bridge_from_ethereum_transaction_hash,
     bridge_to_ethereum_transaction_hash |-> bridge_to_ethereum_transaction_hash,
     direction |-> direction, amount_bridged |-> amount_bridged]

FindMatchResponse(is_arbitrage, bridge_transaction_hash, swap_transaction_hash, swap, second_bridge_transaction_hash) ==
    [is_arbitrage |-> is_arbitrage,
     bridge_transaction_hash |-> bridge_transaction_hash,
     swap_transaction_hash |-> swap_transaction_hash, swap |-> swap,
     second_bridge_transaction_hash |-> second_bridge_transaction_hash]

(***************************************************************************)
(* CrossChainMatch.match_cross_chain_mev_transactions: the two loops over   *)
(* the batch, the body of the inner loop cut at the calls it makes.         *)
(***************************************************************************)
\* the candidate of the running iteration
transaction == blocks[bi].transactions[ti]

Hashes == {CandidateUniverse[i].transaction_hash : i \in 1..Len(CandidateUniverse)}

\* the candidates of the batch, in iteration order
RECURSIVE Flatten(_)
Flatten(bs) == IF bs = <<>> THEN <<>> ELSE Head(bs).transactions \o Flatten(Tail(bs))

BatchHashes == {Flatten(blocks)[i].transaction_hash : i \in 1..Len(Flatten(blocks))}

\* the next iteration of the inner loop or, at the end of the list, of the outer one
NextIteration ==
    /\ locals' = <<>>
    /\ IF ti < Len(blocks[bi].transactions)
       THEN ti' = ti + 1 /\ bi' = bi /\ pc' = "eth_swaps"
       ELSE ti' = 1 /\ bi' = bi + 1 /\ pc' = "block"

\* a variant that lets the error leave the loops
Except_raise(error) ==
    /\ outcome' = [outcome EXCEPT ![transaction.transaction_hash] = error]
    /\ pc' = "raised"
    /\ UNCHANGED <<bi, ti, locals, cross_chain_mev_extractions, cross_chain_mev_failed>>

\* the except clauses (lines 143 to 164): log a warning, go on with the next candidate
Except(error) ==
    /\ outcome' = [outcome EXCEPT ![transaction.transaction_hash] = error]
    /\ NextIteration
    /\ UNCHANGED <<cross_chain_mev_extractions, cross_chain_mev_failed>>

\* a variant that puts the record in both lists
Emit_both(record) ==
    /\ cross_chain_mev_extractions' = Append(cross_chain_mev_extractions, record)
    /\ cross_chain_mev_failed' = Append(cross_chain_mev_failed, record)
    /\ outcome' = [outcome EXCEPT ![transaction.transaction_hash] = record.type]
    /\ NextIteration

\* lines 135 to 142: the record goes to the list of its type
Emit(record) ==
    /\ IF record.type = "CrossChainMevExtraction"
       THEN /\ cross_chain_mev_extractions' = Append(cross_chain_mev_extractions, record)
            /\ UNCHANGED cross_chain_mev_failed
       ELSE IF record.type = "CrossChainMevFailedExtraction"
       THEN /\ cross_chain_mev_failed' = Append(cross_chain_mev_failed, record)
            /\ UNCHANGED cross_chain_mev_extractions
       ELSE UNCHANGED <<cross_chain_mev_extractions, cross_chain_mev_failed>>
    /\ outcome' = [outcome EXCEPT ![transaction.transaction_hash] = record.type]
    /\ NextIteration

Bind(new) == locals' = new @@ locals

\* a variant whose window starts one block early
Search_early(step, from_block, to_block, is_bridge_transaction, polygon_bridge_interaction) ==
    [step |-> step, from_block |-> from_block - 1, to_block |-> to_block,
     polygon_token |-> locals.polygon_token, amount |-> locals.amount,
     is_bridge_transaction |-> is_bridge_transaction,
     polygon_bridge_interaction |-> polygon_bridge_interaction,
     sender_or_receiver |-> locals.sender_or_receiver,
     result |-> match_polygon_transactions(
                    from_block - 1, to_block, locals.polygon_token, locals.amount,
                    is_bridge_transaction, polygon_bridge_interaction,
                    locals.sender_or_receiver)]

\* one call of __match_polygon_transactions, kept in the candidate's history
Search(step, from_block, to_block, is_bridge_transaction, polygon_bridge_interaction) ==
    [step |-> step, from_block |-> from_block, to_block |-> to_block,
     polygon_token |-> locals.polygon_token, amount |-> locals.amount,
     is_bridge_transaction |-> is_bridge_transaction,
     polygon_bridge_interaction |-> polygon_bridge_interaction,
     sender_or_receiver |-> locals.sender_or_receiver,
     result |-> match_polygon_transactions(
                    from_block, to_block, locals.polygon_token, locals.amount,
                    is_bridge_transaction, polygon_bridge_interaction,
                    locals.sender_or_receiver)]

Record(search) ==
    searches' = [searches EXCEPT ![transaction.transaction_hash] = Append(@, search)]

StartBlock ==
    /\ pc = "block" /\ bi <= Len(blocks)
    /\ block_timestamp' = get_block_timestamp(blocks[bi].key)
    /\ pc' = "eth_swaps"
    /\ UNCHANGED <<chain, blocks, bi, ti, locals, cross_chain_mev_extractions,
                   cross_chain_mev_failed, outcome, searches, rpc_faults,
                   tol_in, tol_out, app_vars>>

\* lines 114 to 116
EthereumSwaps ==
    /\ pc = "eth_swaps"
    /\ LET r == process_transaction("ethereum", transaction.transaction_hash)
       IN  IF r.raised = "None"
           THEN /\ Bind([ethereum_swap_info |-> r.value])
                /\ pc' = "eth_parties"
                /\ UNCHANGED <<bi, ti, outcome, cross_chain_mev_extractions,
                               cross_chain_mev_failed>>
           ELSE Except(r.raised)
    /\ UNCHANGED <<chain, blocks, block_timestamp, searches, rpc_faults,
                   tol_in, tol_out, app_vars>>

\* lines 117 to 121
EthereumParties ==
    /\ pc = "eth_parties"
    /\ LET parties == get_transaction_from_and_to(transaction.transaction_hash)
       IN  IF transaction.polygon_bridge_interaction = NONE
           THEN Except("Exception")
           ELSE /\ Bind([ethereum_searcher_eoa |-> parties[1],
                          ethereum_searcher_contract |-> parties[2]])
                /\ pc' = "bridge_info"
                /\ UNCHANGED <<bi, ti, outcome, cross_chain_mev_extractions,
                               cross_chain_mev_failed>>
    /\ UNCHANGED <<chain, blocks, block_timestamp, searches, rpc_faults,
                   tol_in, tol_out, app_vars>>

\* __match_from_ethereum and __match_to_ethereum up to the mapped token
BridgeInformation ==
    /\ pc = "bridge_info"
    /\ LET info ==
               IF transaction.polygon_bridge_interaction = FROM_ETHEREUM
               THEN get_from_ethereum_bridge_operation_information(
                        transaction.transaction_hash)
               ELSE get_to_ethereum_bridge_operation_information(
                        transaction.transaction_hash)
           mapped == get_polygon_mapped_token(info.value[1])
       IN  IF info.raised # "None" THEN Except(info.raised)
           ELSE IF mapped.raised # "None" THEN Except(mapped.raised)
           ELSE /\ Bind([ethereum_leg |->
                             EthereumLeg(info.value[1], transaction.transaction_hash,
                                         locals.ethereum_searcher_eoa,
                                         locals.ethereum_searcher_contract,
                                         locals.ethereum_swap_info),
                          polygon_token |-> mapped.value,
                          sender_or_receiver |-> info.value[2],
                          amount |-> info.value[3]])
                /\ pc' = "find_block"
                /\ UNCHANGED <<bi, ti, outcome, cross_chain_mev_extractions,
                               cross_chain_mev_failed>>
    /\ UNCHANGED <<chain, blocks, block_timestamp, searches, rpc_faults,
                   tol_in, tol_out, app_vars>>

\* an exception other than EthereumServiceError inside the lookup of the
\* bridge operation (a node error in get_transaction_receipt): it is logged
\* and the while True loop of the lookup goes round
BridgeInformationRetry ==
    /\ pc = "bridge_info"
    /\ rpc_faults < MaxRpcFaults
    /\ rpc_faults' = rpc_faults + 1
    /\ UNCHANGED <<chain, blocks, bi, ti, pc, block_timestamp, locals,
                   cross_chain_mev_extractions, cross_chain_mev_failed, outcome,
                   searches, tol_in, tol_out, app_vars>>

\* lines 211 to 213 and 243 to 245
FindBlock ==
    /\ pc = "find_block"
    /\ Bind([polygon_block_number |->
                IF transaction.polygon_bridge_interaction = FROM_ETHEREUM
                THEN find_polygon_block_after_timestamp(block_timestamp)
                ELSE find_polygon_block_before_timestamp(block_timestamp)])
    /\ pc' = "bridge_search"
    /\ UNCHANGED <<chain, blocks, bi, ti, block_timestamp, outcome, searches,
                   cross_chain_mev_extractions, cross_chain_mev_failed,
                   rpc_faults, tol_in, tol_out, app_vars>>

\* lines 276 to 282 and 312 to 318: the search for the bridge event
BridgeSearch ==
    /\ pc = "bridge_search"
    /\ LET polygon_bridge_interaction == transaction.polygon_bridge_interaction
           search ==
               IF polygon_bridge_interaction = FROM_ETHEREUM
               THEN Search("bridge", locals.polygon_block_number,
                           locals.polygon_block_number + NUMBER_OF_BLOCKS_IN_1_HOUR,
                           TRUE, FROM_ETHEREUM)
               ELSE Search("bridge",
                           locals.polygon_block_number - NUMBER_OF_BLOCKS_IN_5_HOURS,
                           locals.polygon_block_number, TRUE, TO_ETHEREUM)
       IN  /\ Record(search)
           /\ IF search.result.raised # "None" THEN Except(search.result.raised)
              ELSE /\ Bind([bridge_transaction_hash |->
                                search.result.value.transactionHash,
                             bridge_transaction_block_number |->
                                search.result.value.blockNumber])
                   /\ pc' = IF polygon_bridge_interaction = FROM_ETHEREUM
                            THEN "swap_search" ELSE "bridge_swaps"
                   /\ UNCHANGED <<bi, ti, outcome, cross_chain_mev_extractions,
                                  cross_chain_mev_failed>>
    /\ UNCHANGED <<chain, blocks, block_timestamp, rpc_faults, tol_in, tol_out, app_vars>>

\* a variant without the shortcut: the swap search follows in any case
BridgeSwaps_search ==
    /\ pc = "bridge_swaps"
    /\ LET r == process_transaction("polygon", locals.bridge_transaction_hash)
       IN  IF r.raised # "None" THEN Except(r.raised)
           ELSE /\ UNCHANGED locals
                /\ pc' = "swap_search"
                /\ UNCHANGED <<bi, ti, outcome, cross_chain_mev_extractions,
                               cross_chain_mev_failed>>
    /\ UNCHANGED <<chain, blocks, block_timestamp, searches, rpc_faults,
                   tol_in, tol_out, app_vars>>

\* lines 320 to 325: does the burn transaction itself swap?
BridgeSwaps ==
    /\ pc = "bridge_swaps"
    /\ LET r == process_transaction("polygon", locals.bridge_transaction_hash)
       IN  IF r.raised # "None" THEN Except(r.raised)
           ELSE /\ IF r.value # None
                   THEN /\ Bind([find_match_response |->
                                    FindMatchResponse(TRUE,
                                        locals.bridge_transaction_hash,
                                        <<locals.bridge_transaction_hash>>,
                                        r.value, None)])
                        /\ pc' = "polygon_parties"
                   ELSE /\ UNCHANGED locals
                        /\ pc' = "swap_search"
                /\ UNCHANGED <<bi, ti, outcome, cross_chain_mev_extractions,
                               cross_chain_mev_failed>>
    /\ UNCHANGED <<chain, blocks, block_timestamp, searches, rpc_faults,
                   tol_in, tol_out, app_vars>>

\* lines 285 to 291 and 327 to 333: the search for the swap-related transfer
SwapSearch ==
    /\ pc = "swap_search"
    /\ LET polygon_bridge_interaction == transaction.polygon_bridge_interaction
           search ==
               IF polygon_bridge_interaction = FROM_ETHEREUM
               THEN Search("swap", locals.bridge_transaction_block_number,
                           locals.bridge_transaction_block_number
                               + NUMBER_OF_BLOCKS_IN_1_HOUR,
                           FALSE, FROM_ETHEREUM)
               ELSE Search("swap",
                           locals.bridge_transaction_block_number
                               - NUMBER_OF_BLOCKS_IN_1_HOUR,
                           locals.bridge_transaction_block_number,
                           FALSE, TO_ETHEREUM)
       IN  /\ Record(search)
           /\ IF search.result.raised = "MatchedLogsError"
              THEN /\ pc' = "bridge_back_search"
                   /\ UNCHANGED locals
              ELSE /\ Bind([swap_transaction_hash |->
                                search.result.value.transactionHash])
                   /\ pc' = "swap_decode"
    /\ UNCHANGED <<chain, blocks, bi, ti, block_timestamp, outcome,
                   cross_chain_mev_extractions, cross_chain_mev_failed,
                   rpc_faults, tol_in, tol_out, app_vars>>

\* lines 292 to 295 and 334 to 337
SwapDecode ==
    /\ pc = "swap_decode"
    /\ LET r == process_transaction("polygon", locals.swap_transaction_hash)
       IN  IF r.raised # "None" THEN Except(r.raised)
           ELSE /\ Bind([find_match_response |->
                            FindMatchResponse(TRUE, locals.bridge_transaction_hash,
                                              <<locals.swap_transaction_hash>>,
                                              r.value, None)])
                /\ pc' = "polygon_parties"
                /\ UNCHANGED <<bi, ti, outcome, cross_chain_mev_extractions,
                               cross_chain_mev_failed>>
    /\ UNCHANGED <<chain, blocks, block_timestamp, searches, rpc_faults,
                   tol_in, tol_out, app_vars>>

\* lines 231 to 238: the failed record of a FROM_ETHEREUM candidate
failed_from_ethereum_swapped(ethereum_leg, find_match_response, amount) ==
    CrossChainMevFailedExtraction(
        ethereum_leg, find_match_response.second_bridge_transaction_hash[1],
        find_match_response.bridge_transaction_hash, FROM_ETHEREUM, amount)

failed_from_ethereum(ethereum_leg, find_match_response, amount) ==
    CrossChainMevFailedExtraction(
        ethereum_leg, find_match_response.bridge_transaction_hash,
        find_match_response.second_bridge_transaction_hash[1], FROM_ETHEREUM, amount)

\* lines 263 to 270: the failed record of a TO_ETHEREUM candidate
failed_to_ethereum_unswapped(ethereum_leg, find_match_response, amount) ==
    CrossChainMevFailedExtraction(
        ethereum_leg, find_match_response.bridge_transaction_hash,
        find_match_response.second_bridge_transaction_hash[1], TO_ETHEREUM, amount)

failed_to_ethereum(ethereum_leg, find_match_response, amount) ==
    CrossChainMevFailedExtraction(
        ethereum_leg, find_match_response.second_bridge_transaction_hash[1],
        find_match_response.bridge_transaction_hash, TO_ETHEREUM, amount)

\* lines 296 to 306 and 338 to 350, then the failed record: the search for
\* the bridge event in the opposite direction
BridgeBackSearch ==
    /\ pc = "bridge_back_search"
    /\ LET polygon_bridge_interaction == transaction.polygon_bridge_interaction
           search ==
               IF polygon_bridge_interaction = FROM_ETHEREUM
               THEN Search("bridge_back", locals.bridge_transaction_block_number,
                           locals.bridge_transaction_block_number
                               + NUMBER_OF_BLOCKS_IN_1_HOUR,
                           TRUE, TO_ETHEREUM)
               ELSE Search("bridge_back",
                           locals.bridge_transaction_block_number
                               - NUMBER_OF_BLOCKS_IN_1_HOUR,
                           locals.bridge_transaction_block_number,
                           TRUE, FROM_ETHEREUM)
           find_match_response ==
               FindMatchResponse(FALSE, locals.bridge_transaction_hash, None, None,
                                 <<search.result.value.transactionHash>>)
       IN  /\ Record(search)
           /\ IF search.result.raised # "None" THEN Except(search.result.raised)
              ELSE IF polygon_bridge_interaction = FROM_ETHEREUM
              THEN Emit(failed_from_ethereum(locals.ethereum_leg,
                                             find_match_response, locals.amount))
              ELSE Emit(failed_to_ethereum(locals.ethereum_leg,
                                           find_match_response, locals.amount))
    /\ UNCHANGED <<chain, blocks, block_timestamp, rpc_faults, tol_in, tol_out, app_vars>>

\* lines 216 to 230 and 248 to 262: the Polygon leg and the successful record
PolygonParties ==
    /\ pc = "polygon_parties"
    /\ LET find_match_response == locals.find_match_response
           parties == get_transaction_from_and_to(
                          find_match_response.swap_transaction_hash[1])
           polygon_leg ==
               PolygonLeg(locals.polygon_token,
                          find_match_response.bridge_transaction_hash,
                          find_match_response.swap_transaction_hash[1],
                          parties[1], parties[2], find_match_response.swap)
       IN  Emit(CrossChainMevExtraction(locals.ethereum_leg, polygon_leg,
                                        transaction.polygon_bridge_interaction,
                                        locals.amount))
    /\ UNCHANGED <<chain, blocks, block_timestamp, searches, rpc_faults,
                   tol_in, tol_out, app_vars>>

\* the calls to the nodes that are made without a retry loop: the receipt
\* and pool reads of process_transaction, the get_logs of get_transfer_logs
UnretriedCalls == {"eth_swaps", "bridge_search", "bridge_swaps", "swap_search",
                   "swap_decode", "bridge_back_search"}

\* such a call raises (connection error, timeout, node error): no clause but
\* the last, except Exception, takes it
RpcError ==
    /\ pc \in UnretriedCalls
    /\ rpc_faults < MaxRpcFaults
    /\ rpc_faults' = rpc_faults + 1
    /\ Except("Exception")
    /\ UNCHANGED <<chain, blocks, block_timestamp, searches, tol_in, tol_out, app_vars>>

\* line 166
ReturnLists ==
    /\ pc = "block" /\ bi > Len(blocks)
    /\ pc' = "returned"
    /\ UNCHANGED <<chain, blocks, bi, ti, block_timestamp, locals,
                   cross_chain_mev_extractions, cross_chain_mev_failed, outcome,
                   searches, rpc_faults, tol_in, tol_out, app_vars>>

(***************************************************************************)
(* The batches handed to the matcher and the chains it runs against.        *)
(***************************************************************************)
RECURSIVE Pick(_, _, _)
Pick(seq, S, i) ==
    IF i > Len(seq) THEN <<>>
    ELSE (IF i \in S THEN <<seq[i]>> ELSE <<>>) \o Pick(seq, S, i + 1)

\* the dict find_cross_chain_mev_candidates builds: one entry per block that
\* has candidates, in block order, the candidates in transaction order
RECURSIVE GroupByBlock(_)
GroupByBlock(candidates) ==
    IF candidates = <<>> THEN <<>>
    ELSE LET key == Head(candidates).block_number
         IN  <<[key |-> key,
                transactions |->
                    SelectSeq(candidates, LAMBDA c : c.block_number = key)]>>
             \o GroupByBlock(SelectSeq(candidates, LAMBDA c : c.block_number # key))

\* nothing of the application around the matcher has run
AppIdle ==
    /\ ai = 1 /\ analysed = <<>>
    /\ extractions_result = <<>> /\ extractions_failed = <<>>
    /\ block_number_start = 0 /\ block_number_end = 0
    /\ counts = [candidates |-> 0, fulfilled |-> 0, bridged_back |-> 0]
    /\ database = <<>> /\ sel_out = None
    /\ FetchIdle

Chains ==
    {Pick(LogUniverse, S, 1) :
        S \in {T \in SUBSET (1..Len(LogUniverse)) : Cardinality(T) <= MaxLogs}}

Batches ==
    {GroupByBlock(Pick(CandidateUniverse, S, 1)) :
        S \in {T \in SUBSET (1..Len(CandidateUniverse)) : Cardinality(T) <= MaxBatch}}

Init ==
    /\ chain \in Chains
    /\ blocks \in Batches
    /\ bi = 1 /\ ti = 1
    /\ pc = "block"
    /\ block_timestamp = 0
    /\ locals = <<>>
    /\ cross_chain_mev_extractions = <<>>
    /\ cross_chain_mev_failed = <<>>
    /\ outcome = [h \in Hashes |-> "pending"]
    /\ searches = [h \in Hashes |-> <<>>]
    /\ rpc_faults = 0
    /\ tol_in = <<>>
    /\ tol_out = None
    /\ AppIdle

Next ==
    \/ StartBlock
    \/ EthereumSwaps
    \/ EthereumParties
    \/ BridgeInformation
    \/ BridgeInformationRetry
    \/ FindBlock
    \/ BridgeSearch
    \/ BridgeSwaps
    \/ SwapSearch
    \/ SwapDecode
    \/ BridgeBackSearch
    \/ PolygonParties
    \/ RpcError
    \/ ReturnLists

Spec == Init /\ [][Next]_vars

(***************************************************************************)
(* The amount filter by itself (lines 365 to 367), on amounts of the size   *)
(* of token amounts in base units: amount = 100*k + e and value = side*k + d *)
(* with k = units, or 10^16 + units when the amount is beyond 2^53.          *)
(***************************************************************************)
\* most units of k, and most offset of the amount and of the value
MaxUnits == 4
MaxOffset == 2

TenTo16 == MulBig(ToBig(10^8), ToBig(10^8))

FilterInput(huge, units, side, e, d) ==
    LET k == IF huge THEN AddBig(TenTo16, ToBig(units)) ELSE ToBig(units)
    IN  [amount |-> AddBig(MulBig(ToBig(100), k), ToBig(e)),
         value |-> AddBig(MulBig(ToBig(side), k), ToBig(d))]

InitFilter ==
    /\ tol_in \in {FilterInput(huge, units, side, e, d) :
                       huge \in BOOLEAN, units \in 1..MaxUnits, side \in {99, 101},
                       e \in 0..MaxOffset, d \in 0..MaxOffset}
    /\ tol_out = None
    /\ chain = <<>> /\ blocks = <<>>
    /\ bi = 1 /\ ti = 1
    /\ pc = "filter"
    /\ block_timestamp = 0
    /\ locals = <<>>
    /\ cross_chain_mev_extractions = <<>>
    /\ cross_chain_mev_failed = <<>>
    /\ outcome = [h \in Hashes |-> "pending"]
    /\ searches = [h \in Hashes |-> <<>>]
    /\ rpc_faults = 0
    /\ AppIdle

\* amount * 0.99 <= transfer_log.args.value <= amount * 1.01
ApplyFilter ==
    /\ pc = "filter" /\ tol_out = None
    /\ tol_out' = <<AmountMatches(tol_in.value, tol_in.amount)>>
    /\ UNCHANGED <<matcher_vars, tol_in, app_vars>>

NextFilter == ApplyFilter

SpecFilter == InitFilter /\ [][NextFilter]_vars

(***************************************************************************)
(* Properties.  The logs of the chain by their kind, as the description of  *)
(* the matcher words them.                                                  *)
(***************************************************************************)
InWindow(l, token, from_block, to_block) ==
    /\ l.address = token
    /\ l.blockNumber >= from_block
    /\ l.blockNumber <= to_block

\* mints of the token to the party, of an amount the filter passes
Mints(token, from_block, to_block, party, amount) ==
    SelectSeq(chain, LAMBDA l : /\ InWindow(l, token, from_block, to_block)
                                /\ l.args.from = ADDRESS_ZERO
                                /\ l.args.to = party
                                /\ AmountMatches(l.args.value, amount))

\* burns of the token by the party
Burns(token, from_block, to_block, party, amount) ==
    SelectSeq(chain, LAMBDA l : /\ InWindow(l, token, from_block, to_block)
                                /\ l.args.from = party
                                /\ l.args.to = ADDRESS_ZERO
                                /\ AmountMatches(l.args.value, amount))

\* plain transfers out of the party
TransfersOut(token, from_block, to_block, party, amount) ==
    SelectSeq(chain, LAMBDA l : /\ InWindow(l, token, from_block, to_block)
                                /\ l.args.from = party
                                /\ l.args.to # ADDRESS_ZERO
                                /\ AmountMatches(l.args.value, amount))

\* plain transfers into the party
TransfersIn(token, from_block, to_block, party, amount) ==
    SelectSeq(chain, LAMBDA l : /\ InWindow(l, token, from_block, to_block)
                                /\ l.args.to = party
                                /\ l.args.from # ADDRESS_ZERO
                                /\ AmountMatches(l.args.value, amount))

\* the logs of the window that pass the filters of one recorded call
PassingLogs(s) ==
    IF s.is_bridge_transaction
    THEN IF s.polygon_bridge_interaction = FROM_ETHEREUM
         THEN Mints(s.polygon_token, s.from_block, s.to_block,
                    s.sender_or_receiver, s.amount)
         ELSE Burns(s.polygon_token, s.from_block, s.to_block,
                    s.sender_or_receiver, s.amount)
    ELSE IF s.polygon_bridge_interaction = FROM_ETHEREUM
         THEN TransfersOut(s.polygon_token, s.from_block, s.to_block,
                           s.sender_or_receiver, s.amount)
         ELSE TransfersIn(s.polygon_token, s.from_block, s.to_block,
                          s.sender_or_receiver, s.amount)

\* the records a candidate has in a list
RecordsOf(list, h) ==
    SelectSeq(list, LAMBDA r : r.ethereum_leg.transaction_hash = h)

\* the candidates of the batch
Candidates == {Flatten(blocks)[i] : i \in 1..Len(Flatten(blocks))}

ErrorKinds == {"EthereumServiceError", "MatchedLogsError", "SwapProcessorError",
               "PolygonBridgeInteractorError", "Exception"}

\* C1: every call of the windowed match returns a log if and only if exactly
\* one log of the window passes the amount and role filters, and returns that
\* log; otherwise it raises MatchedLogsError carrying all the passing logs.
C1_UniqueOrError ==
    \A h \in Hashes : \A i \in 1..Len(searches[h]) :
        LET s == searches[h][i]
            passing == PassingLogs(s)
        IN  /\ (s.result.raised = "None") <=> (Len(passing) = 1)
            /\ s.result.raised = "None" => s.result.value = passing[1]
            /\ s.result.raised # "None" =>
                   /\ s.result.raised = "MatchedLogsError"
                   /\ s.result.payload = passing

\* a candidate with a search that returned its only passing log and a search
\* that raised with two or more passing logs
C1_Witness ==
    \E h \in Hashes : \E i, j \in 1..Len(searches[h]) :
        /\ searches[h][i].result.raised = "None"
        /\ Len(PassingLogs(searches[h][i])) = 1
        /\ searches[h][j].result.raised = "MatchedLogsError"
        /\ Len(searches[h][j].result.payload) >= 2

\* the bounds of one percent in exact arithmetic:
\* 99 * amount <= 100 * value <= 101 * amount
ExactWithin(value, amount) ==
    /\ Cmp(MulBig(ToBig(99), amount), MulBig(ToBig(100), value)) <= 0
    /\ Cmp(MulBig(ToBig(100), value), MulBig(ToBig(101), amount)) <= 0

\* C2: for every amount and every value the filter passes the value if and
\* only if 0.99 * amount <= value <= 1.01 * amount, both bounds included.
C2_ExactTolerance ==
    tol_out # None => (tol_out[1] <=> ExactWithin(tol_in.value, tol_in.amount))

\* C3: a candidate with a search step in which more than one log passed the
\* filters is unmatched: it has no failed record and no extraction.
C3_AmbiguousIsUnmatched ==
    \A h \in Hashes :
        (\E i \in 1..Len(searches[h]) : Len(PassingLogs(searches[h][i])) > 1)
            => /\ RecordsOf(cross_chain_mev_failed, h) = <<>>
               /\ RecordsOf(cross_chain_mev_extractions, h) = <<>>


(***************************************************************************)
(* What a candidate's Ethereum transaction says, and where its search on    *)
(* Polygon starts.                                                          *)
(***************************************************************************)
BridgeInfo(c) ==
    IF c.polygon_bridge_interaction = FROM_ETHEREUM
    THEN get_from_ethereum_bridge_operation_information(c.transaction_hash)
    ELSE get_to_ethereum_bridge_operation_information(c.transaction_hash)

\* the Ethereum side of the candidate is read without an error
EthereumSideRead(c) ==
    /\ process_transaction("ethereum", c.transaction_hash).raised = "None"
    /\ BridgeInfo(c).raised = "None"
    /\ get_polygon_mapped_token(BridgeInfo(c).value[1]).raised = "None"

TokenOf(c) == get_polygon_mapped_token(BridgeInfo(c).value[1]).value
PartyOf(c) == BridgeInfo(c).value[2]
AmountOf(c) == BridgeInfo(c).value[3]
AnchorOf(c) ==
    IF c.polygon_bridge_interaction = FROM_ETHEREUM
    THEN find_polygon_block_after_timestamp(get_block_timestamp(c.block_number))
    ELSE find_polygon_block_before_timestamp(get_block_timestamp(c.block_number))

\* the candidate's iteration is over and no call to a node raised in it
Settled(c) == outcome[c.transaction_hash] \notin {"pending", "Exception"}

\* FROM_ETHEREUM: the mints to the receiver in [anchor, anchor + 1h], and the
\* plain transfers out of it and its burns in [mintBlock, mintBlock + 1h]
ReceiverMints(c) ==
    Mints(TokenOf(c), AnchorOf(c), AnchorOf(c) + NUMBER_OF_BLOCKS_IN_1_HOUR,
          PartyOf(c), AmountOf(c))
ReceiverTransfers(c, mint) ==
    TransfersOut(TokenOf(c), mint.blockNumber,
                 mint.blockNumber + NUMBER_OF_BLOCKS_IN_1_HOUR, PartyOf(c), AmountOf(c))
ReceiverBurns(c, mint) ==
    Burns(TokenOf(c), mint.blockNumber,
          mint.blockNumber + NUMBER_OF_BLOCKS_IN_1_HOUR, PartyOf(c), AmountOf(c))

\* TO_ETHEREUM: the burns of the sender in [anchor - 5h, anchor], and the plain
\* transfers the swap search accepts and the mints in [burnBlock - 1h, burnBlock]
SenderBurns(c) ==
    Burns(TokenOf(c), AnchorOf(c) - NUMBER_OF_BLOCKS_IN_5_HOURS, AnchorOf(c),
          PartyOf(c), AmountOf(c))
SenderTransfers(c, burn) ==
    TransfersIn(TokenOf(c), burn.blockNumber - NUMBER_OF_BLOCKS_IN_1_HOUR,
                burn.blockNumber, PartyOf(c), AmountOf(c))
SenderMints(c, burn) ==
    Mints(TokenOf(c), burn.blockNumber - NUMBER_OF_BLOCKS_IN_1_HOUR,
          burn.blockNumber, PartyOf(c), AmountOf(c))

FromEthereumSuccessCase(c) ==
    /\ c.polygon_bridge_interaction = FROM_ETHEREUM
    /\ EthereumSideRead(c)
    /\ Len(ReceiverMints(c)) = 1
    /\ Len(ReceiverTransfers(c, ReceiverMints(c)[1])) = 1
    /\ process_transaction("polygon",
           ReceiverTransfers(c, ReceiverMints(c)[1])[1].transactionHash).raised = "None"

\* C4: a FROM_ETHEREUM candidate with exactly one mint to the receiver passing
\* the filter in [anchor, anchor + 1h], exactly one plain transfer out of the
\* receiver passing it in [mintBlock, mintBlock + 1h], and a coherent decoding
\* of that transfer's transaction, once processed with no node call raising,
\* has exactly one extraction (direction FROM_ETHEREUM, Polygon bridge
\* transaction the mint's, Polygon swap transaction the transfer's, Polygon
\* swaps the decoded ones) and no failed record.
C4_FromEthereumSuccess ==
    \A c \in Candidates :
        Settled(c) /\ FromEthereumSuccessCase(c) =>
            LET mint == ReceiverMints(c)[1]
                transfer == ReceiverTransfers(c, mint)[1]
                extractions == RecordsOf(cross_chain_mev_extractions, c.transaction_hash)
            IN  /\ Len(extractions) = 1
                /\ extractions[1].direction = FROM_ETHEREUM
                /\ extractions[1].polygon_leg.bridge_transaction_hash
                       = mint.transactionHash
                /\ extractions[1].polygon_leg.swap_transaction_hash
                       = transfer.transactionHash
                /\ extractions[1].polygon_leg.swaps
                       = process_transaction("polygon", transfer.transactionHash).value
                /\ RecordsOf(cross_chain_mev_failed, c.transaction_hash) = <<>>

C4_Witness ==
    \E c \in Candidates :
        /\ Settled(c) /\ FromEthereumSuccessCase(c)
        /\ Len(RecordsOf(cross_chain_mev_extractions, c.transaction_hash)[1]
                   .polygon_leg.swaps) >= 1

FromEthereumFailureCase(c) ==
    /\ c.polygon_bridge_interaction = FROM_ETHEREUM
    /\ EthereumSideRead(c)
    /\ Len(ReceiverMints(c)) = 1
    /\ Len(ReceiverTransfers(c, ReceiverMints(c)[1])) = 0
    /\ Len(ReceiverBurns(c, ReceiverMints(c)[1])) = 1

\* C5: a FROM_ETHEREUM candidate with exactly one mint, no plain transfer out
\* of the receiver in [mintBlock, mintBlock + 1h] and exactly one burn by the
\* receiver in that window, once processed with no node call raising, has
\* exactly one failed record (direction FROM_ETHEREUM, bridge-from-Ethereum
\* transaction the mint's, bridge-to-Ethereum transaction the burn's) and no
\* extraction.
C5_FromEthereumFailure ==
    \A c \in Candidates :
        Settled(c) /\ FromEthereumFailureCase(c) =>
            LET mint == ReceiverMints(c)[1]
                burn == ReceiverBurns(c, mint)[1]
                failed == RecordsOf(cross_chain_mev_failed, c.transaction_hash)
            IN  /\ Len(failed) = 1
                /\ failed[1].direction = FROM_ETHEREUM
                /\ failed[1].bridge_from_ethereum_transaction_hash = mint.transactionHash
                /\ failed[1].bridge_to_ethereum_transaction_hash = burn.transactionHash
                /\ RecordsOf(cross_chain_mev_extractions, c.transaction_hash) = <<>>

C5_Witness ==
    \E c \in Candidates :
        /\ pc = "returned"
        /\ Settled(c) /\ FromEthereumFailureCase(c)
        /\ RecordsOf(cross_chain_mev_failed, c.transaction_hash) # <<>>


\* TO_ETHEREUM: the burn is the only one, its transaction has no swap and the
\* swap search finds no plain transfer in [burnBlock - 1h, burnBlock]
ToEthereumFallbackCase(c) ==
    /\ c.polygon_bridge_interaction = TO_ETHEREUM
    /\ EthereumSideRead(c)
    /\ Len(SenderBurns(c)) = 1
    /\ process_transaction("polygon", SenderBurns(c)[1].transactionHash)
           = Return(None)
    /\ Len(SenderTransfers(c, SenderBurns(c)[1])) = 0

\* C6: a TO_ETHEREUM candidate in the fallback case, once processed with no node
\* call raising: with exactly one mint to the sender in [burnBlock - 1h,
\* burnBlock] it has exactly one failed record (direction TO_ETHEREUM,
\* bridge-from-Ethereum transaction the mint's, bridge-to-Ethereum transaction
\* the burn's) and no extraction; with no mint or several it has no record.
C6_ToEthereumFailure ==
    \A c \in Candidates :
        Settled(c) /\ ToEthereumFallbackCase(c) =>
            LET burn == SenderBurns(c)[1]
                mints == SenderMints(c, burn)
                failed == RecordsOf(cross_chain_mev_failed, c.transaction_hash)
            IN  /\ RecordsOf(cross_chain_mev_extractions, c.transaction_hash) = <<>>
                /\ IF Len(mints) = 1
                   THEN /\ Len(failed) = 1
                        /\ failed[1].direction = TO_ETHEREUM
                        /\ failed[1].bridge_from_ethereum_transaction_hash
                               = mints[1].transactionHash
                        /\ failed[1].bridge_to_ethereum_transaction_hash
                               = burn.transactionHash
                   ELSE failed = <<>>

\* a TO_ETHEREUM candidate in the fallback case, with one mint in the window,
\* is over and has its failed record
C6_Witness ==
    /\ \E c \in Candidates :
           /\ Settled(c) /\ ToEthereumFallbackCase(c)
           /\ Len(SenderMints(c, SenderBurns(c)[1])) = 1
           /\ Len(RecordsOf(cross_chain_mev_failed, c.transaction_hash)) = 1
    /\ pc = "returned"

\* the swap searches of the TO_ETHEREUM candidates that returned a log, each
\* with the bridge search before it
ToEthereumSwapSearches ==
    {<<c, i>> \in Candidates \X (1..3) :
        /\ c.polygon_bridge_interaction = TO_ETHEREUM
        /\ i <= Len(searches[c.transaction_hash])
        /\ searches[c.transaction_hash][i].step = "swap"
        /\ searches[c.transaction_hash][i].result.raised = "None"}

\* C7 as stated: the log the TO_ETHEREUM swap search accepts is a transfer out
\* of the sender: its from is the sender and its to is not the zero address.
C7_TransferOutOfSender ==
    \A p \in ToEthereumSwapSearches :
        LET s == searches[p[1].transaction_hash][p[2]]
        IN  /\ s.result.value.args.from = s.sender_or_receiver
            /\ s.result.value.args.to # ADDRESS_ZERO

\* C7 amended: the log the TO_ETHEREUM swap search accepts is a transfer into
\* the sender from an address that is not the zero address (its to is the
\* sender), of a value the amount filter passes, in [burnBlock - 1h, burnBlock].
C7_TransferIntoSender ==
    \A p \in ToEthereumSwapSearches :
        LET s == searches[p[1].transaction_hash][p[2]]
            burn == searches[p[1].transaction_hash][p[2] - 1].result.value
            accepted == s.result.value
        IN  /\ accepted.args.to = PartyOf(p[1])
            /\ accepted.args.from # ADDRESS_ZERO
            /\ AmountMatches(accepted.args.value, AmountOf(p[1]))
            /\ accepted.blockNumber >= burn.blockNumber - NUMBER_OF_BLOCKS_IN_1_HOUR
            /\ accepted.blockNumber <= burn.blockNumber
            /\ accepted.address = TokenOf(p[1])

C7_Witness ==
    \E p \in ToEthereumSwapSearches :
        /\ searches[p[1].transaction_hash][p[2]].result.value.args.from = Pool
        /\ outcome[p[1].transaction_hash] = "CrossChainMevExtraction"


RecordKinds == {"CrossChainMevExtraction", "CrossChainMevFailedExtraction"}

C9_AtMostOneRecord ==
    \A h \in Hashes :
        LET n == Len(RecordsOf(cross_chain_mev_extractions, h))
                 + Len(RecordsOf(cross_chain_mev_failed, h))
        IN  /\ n <= 1
            /\ outcome[h] \in ErrorKinds \cup {"pending"} => n = 0

\* one candidate raised an error and has no record, another has its record
C9_Witness ==
    \E h1, h2 \in BatchHashes :
        /\ outcome[h1] = "MatchedLogsError"
        /\ outcome[h2] = "CrossChainMevFailedExtraction"
        /\ Len(cross_chain_mev_failed) = 1
        /\ Len(cross_chain_mev_extractions) = 0

\* the token-chain invariant of a swap list taken in the order of the log index
TokenChain(swaps) ==
    \A i \in 1..(Len(swaps) - 1) :
        /\ swaps[i].event_index <= swaps[i + 1].event_index
        /\ swaps[i].token_out = swaps[i + 1].token_in

\* C10: the Ethereum swaps and the Polygon swaps of every extraction in the
\* list are ordered by log index and chained: each swap's token_out is the
\* next swap's token_in.
C10_TokenChain ==
    \A i \in 1..Len(cross_chain_mev_extractions) :
        /\ TokenChain(cross_chain_mev_extractions[i].ethereum_leg.swaps)
        /\ TokenChain(cross_chain_mev_extractions[i].polygon_leg.swaps)

\* an extraction with two Ethereum swaps and one with two Polygon swaps
C10_Witness ==
    /\ \E i \in 1..Len(cross_chain_mev_extractions) :
           Len(cross_chain_mev_extractions[i].ethereum_leg.swaps) >= 2
    /\ \E i \in 1..Len(cross_chain_mev_extractions) :
           Len(cross_chain_mev_extractions[i].polygon_leg.swaps) >= 2


\* C11: every extraction in the list carries a decoded swap list with at
\* least one swap on its Ethereum leg and on its Polygon leg (never None), and
\* no failed record carries swaps of the Polygon side.
C11_BothLegsPopulated ==
    /\ \A i \in 1..Len(cross_chain_mev_extractions) :
           /\ cross_chain_mev_extractions[i].ethereum_leg.swaps # None
           /\ cross_chain_mev_extractions[i].polygon_leg.swaps # None
    /\ \A i \in 1..Len(cross_chain_mev_failed) :
           "polygon_leg" \notin DOMAIN cross_chain_mev_failed[i]


(***************************************************************************)
(* CrossChainArbitrage (src/analysis/cross_chain_arbitrage.py)              *)
(***************************************************************************)
\* most extractions in the list handed to the analyzer
MaxExtractions == 2

\* _ETH_TO_POLYGON_TOKEN_MAP, a defaultdict of lists
ETH_TO_POLYGON_TOKEN_MAP(token) ==
    IF token = "WETH" THEN <<"pWETH", "pWETH_legacy">> ELSE <<>>

\* symbol() and decimals() of the ERC20 contracts on Ethereum
TokenSymbols == [WETH |-> "WETH", USDC |-> "USDC", DAI |-> "DAI"]
TokenDecimals == [WETH |-> 2, USDC |-> 1, DAI |-> 2]

\* effectiveGasPrice and gasUsed of the receipts on either chain
GasReceipts ==
    [e1 |-> <<7, 30>>, e4 |-> <<7, 21>>, e5 |-> <<9, 30>>, e6 |-> <<9, 40>>,
     e7 |-> <<8, 30>>, e8 |-> <<8, 31>>, e9 |-> <<8, 32>>,
     pm1 |-> <<2, 10>>, pm2 |-> <<2, 11>>, ps1 |-> <<2, 50>>, ps2 |-> <<3, 50>>,
     pi1 |-> <<3, 60>>, pb1 |-> <<2, 12>>, pb2 |-> <<4, 70>>]

get_transaction_gas_paid(transaction_hash) ==
    GasReceipts[transaction_hash][1] * GasReceipts[transaction_hash][2]

\* f'{Decimal(balance) / Decimal(10 ** decimals):.{decimals}f}': the sign, the
\* digits before the point and the digits after it; a balance of 0 gives '0',
\* which has no digit after the point
format_balance(balance, decimals) ==
    IF balance = 0
    THEN [negative |-> FALSE, integer |-> 0, fraction |-> 0, places |-> 0]
    ELSE LET magnitude == IF balance < 0 THEN -balance ELSE balance
         IN  [negative |-> balance < 0,
              integer |-> magnitude \div (10 ^ decimals),
              fraction |-> magnitude % (10 ^ decimals),
              places |-> decimals]

get_token_symbol_and_parsed_amount(token_address, amount) ==
    <<TokenSymbols[token_address], format_balance(amount, TokenDecimals[token_address])>>

\* x in list
InList(x, list) == \E i \in 1..Len(list) : list[i] = x

\* the fields the two analyses set on a cyclic arbitrage
WithProfit(extraction, token, profit_amount) ==
    LET parsed == get_token_symbol_and_parsed_amount(token, profit_amount)
    IN  [extraction EXCEPT !.is_cyclic_arbitrage = TRUE,
                           !.profit_token_symbol = <<parsed[1]>>,
                           !.profit_amount = <<parsed[2]>>]

\* a variant that subtracts the other way round
analyze_from_ethereum_arbitrage_reversed(extraction) ==
    IF extraction.ethereum_leg.swaps = None \/ extraction.polygon_leg.swaps = None
    THEN Raise("TypeError", extraction)
    ELSE LET first == extraction.ethereum_leg.swaps[1]
             last == extraction.polygon_leg.swaps[Len(extraction.polygon_leg.swaps)]
             mapped == get_polygon_mapped_token(first.token_in)
         IN  IF mapped.raised # "None" THEN mapped
             ELSE IF InList(last.token_out, <<mapped.value>>
                                \o ETH_TO_POLYGON_TOKEN_MAP(first.token_in))
             THEN Return(WithProfit(extraction, first.token_in,
                                    first.amount_in - last.amount_out))
             ELSE Return(extraction)

\* lines 70 to 86
analyze_from_ethereum_arbitrage(extraction) ==
    IF extraction.ethereum_leg.swaps = None \/ extraction.polygon_leg.swaps = None
    THEN Raise("TypeError", extraction)
    ELSE LET ethereum_token_started_wtih == extraction.ethereum_leg.swaps[1].token_in
             last == extraction.polygon_leg.swaps[Len(extraction.polygon_leg.swaps)]
             polygon_token_ended_with == last.token_out
             mapped == get_polygon_mapped_token(ethereum_token_started_wtih)
         IN  IF mapped.raised # "None" THEN mapped
             ELSE IF InList(polygon_token_ended_with,
                            <<mapped.value>>
                                \o ETH_TO_POLYGON_TOKEN_MAP(ethereum_token_started_wtih))
             THEN Return(WithProfit(extraction, ethereum_token_started_wtih,
                                    last.amount_out
                                        - extraction.ethereum_leg.swaps[1].amount_in))
             ELSE Return(extraction)

\* lines 88 to 104
analyze_to_ethereum_arbitrage(extraction) ==
    IF extraction.polygon_leg.swaps = None \/ extraction.ethereum_leg.swaps = None
    THEN Raise("TypeError", extraction)
    ELSE LET polygon_token_started_wtih == extraction.polygon_leg.swaps[1].token_in
             last == extraction.ethereum_leg.swaps[Len(extraction.ethereum_leg.swaps)]
             ethereum_token_ended_with == last.token_out
             mapped == get_polygon_mapped_token(ethereum_token_ended_with)
         IN  IF mapped.raised # "None" THEN mapped
             ELSE IF InList(polygon_token_started_wtih,
                            <<mapped.value>>
                                \o ETH_TO_POLYGON_TOKEN_MAP(ethereum_token_ended_with))
             THEN Return(WithProfit(extraction, ethereum_token_ended_with,
                                    last.amount_out
                                        - extraction.polygon_leg.swaps[1].amount_in))
             ELSE Return(extraction)


\* the body of the try of one iteration (lines 49 to 65): the analysis of the
\* extraction's direction, then the three gas fields
analyse_iteration(extraction) ==
    LET analysis ==
            IF extraction.direction = FROM_ETHEREUM
            THEN analyze_from_ethereum_arbitrage(extraction)
            ELSE IF extraction.direction = TO_ETHEREUM
            THEN analyze_to_ethereum_arbitrage(extraction)
            ELSE Return(extraction)
        bridge_gas == get_transaction_gas_paid(
                          extraction.polygon_leg.bridge_transaction_hash)
    IN  IF analysis.raised # "None"
        THEN [extraction |-> extraction, raised |-> analysis.raised]
        ELSE [extraction |->
                 [analysis.value EXCEPT
                     !.ethereum_leg.gas_paid =
                         <<get_transaction_gas_paid(
                               extraction.ethereum_leg.transaction_hash)>>,
                     !.polygon_leg.bridge_transaction_gas_paid = <<bridge_gas>>,
                     !.polygon_leg.swap_transaction_gas_paid =
                         IF extraction.polygon_leg.bridge_transaction_hash
                                = extraction.polygon_leg.swap_transaction_hash
                         THEN <<bridge_gas>>
                         ELSE <<get_transaction_gas_paid(
                                    extraction.polygon_leg.swap_transaction_hash)>>],
              raised |-> "None"]

\* a variant in which an error ends the loop
NextExtraction_stop(raised) ==
    ai' = IF raised # "None" THEN Len(cross_chain_mev_extractions) + 1 ELSE ai + 1

\* the for loop (line 47) and its except clause (lines 66 to 68): log, go on
NextExtraction(raised) == ai' = ai + 1

AnalyseExtraction ==
    /\ pc = "returned" /\ ai <= Len(cross_chain_mev_extractions)
    /\ LET iteration == analyse_iteration(cross_chain_mev_extractions[ai])
       IN  /\ cross_chain_mev_extractions' =
                  [cross_chain_mev_extractions EXCEPT ![ai] = iteration.extraction]
           /\ analysed' = Append(analysed, iteration.raised)
           /\ NextExtraction(iteration.raised)
    /\ UNCHANGED <<chain, blocks, bi, ti, pc, block_timestamp, locals,
                   cross_chain_mev_failed, outcome, searches, rpc_faults,
                   tol_in, tol_out, extractions_result, extractions_failed,
                   block_number_start, block_number_end, counts, database, sel_out, fetch_vars>>

\* the end of the loop: analayze_cross_chain_arbitrage returns
AnalysisDone ==
    /\ pc = "returned" /\ ai > Len(cross_chain_mev_extractions)
    /\ pc' = "analysed"
    /\ UNCHANGED <<chain, blocks, bi, ti, block_timestamp, locals,
                   cross_chain_mev_extractions, cross_chain_mev_failed, outcome,
                   searches, rpc_faults, tol_in, tol_out, app_vars>>

\* extractions as the matcher builds them
Extraction(direction, ethereum_hash, ethereum_swaps, bridge_hash, swap_hash, polygon_swaps) ==
    CrossChainMevExtraction(
        EthereumLeg("USDC", ethereum_hash, TransactionParties.from,
                    TransactionParties.to, ethereum_swaps),
        PolygonLeg("pUSDC", bridge_hash, swap_hash, TransactionParties.from,
                   TransactionParties.to, polygon_swaps),
        direction, ToBig(1000))

ExtractionUniverse ==
    <<Extraction(FROM_ETHEREUM, "e1",
                 <<Swap("DAI", "WETH", 50, 3, 2), Swap("WETH", "USDC", 3, 1000, 5)>>,
                 "pm1", "ps1", <<Swap("pUSDC", "pWETH", 998, 4, 3)>>),
      Extraction(FROM_ETHEREUM, "e4", None,
                 "pm1", "ps1", <<Swap("pUSDC", "pWETH", 998, 4, 3)>>),
      Extraction(TO_ETHEREUM, "e5", <<Swap("USDC", "WETH", 1000, 3, 4)>>,
                 "pb1", "pi1",
                 <<Swap("pDAI", "pWETH", 70, 4, 4), Swap("pWETH", "pUSDC", 4, 1000, 9)>>),
      Extraction(TO_ETHEREUM, "e5", <<Swap("USDC", "WETH", 1000, 3, 4)>>,
                 "pb2", "pb2", <<Swap("pWETH", "pUSDC", 4, 1000, 2)>>),
      Extraction(FROM_ETHEREUM, "e7", <<Swap("WETH", "USDC", 3, 1000, 5)>>,
                 "pm2", "ps1", <<Swap("pUSDC", "pWETH", 998, 4, 3)>>),
      Extraction(FROM_ETHEREUM, "e8", <<Swap("WETH", "USDC", 3, 1000, 5)>>,
                 "pm2", "ps2", <<Swap("pUSDC", "pWETH_legacy", 998, 3, 3)>>),
      Extraction(FROM_ETHEREUM, "e9", <<Swap("USDC", "WETH", 1000, 3, 1),
                                        Swap("WETH", "USDC", 3, 1001, 5)>>,
                 "pm1", "ps1", <<Swap("pUSDC", "pWETH", 998, 4, 3)>>),
      Extraction(TO_ETHEREUM, "e6", <<Swap("USDC", "DAI", 1000, 50, 1),
                                      Swap("DAI", "WETH", 50, 5, 2)>>,
                 "pb2", "pb2", <<Swap("pWETH", "pUSDC", 4, 1000, 2)>>),
      Extraction(TO_ETHEREUM, "e5", <<Swap("USDC", "WETH", 1000, 3, 4)>>,
                 "pb1", "pi1", <<Swap("pWETH_legacy", "pUSDC", 2, 1000, 4)>>)>>

\* the lists of at most MaxExtractions extractions
RECURSIVE ListsOf(_, _)
ListsOf(universe, n) ==
    IF n = 0 THEN {<<>>}
    ELSE ListsOf(universe, n - 1)
         \cup {Append(l, universe[i]) : l \in ListsOf(universe, n - 1),
                                        i \in 1..Len(universe)}

InitAnalyzer ==
    /\ cross_chain_mev_extractions \in ListsOf(ExtractionUniverse, MaxExtractions)
    /\ pc = "returned"
    /\ chain = <<>> /\ blocks = <<>>
    /\ bi = 1 /\ ti = 1
    /\ block_timestamp = 0
    /\ locals = <<>>
    /\ cross_chain_mev_failed = <<>>
    /\ outcome = [h \in Hashes |-> "pending"]
    /\ searches = [h \in Hashes |-> <<>>]
    /\ rpc_faults = 0
    /\ tol_in = <<>> /\ tol_out = None
    /\ AppIdle

NextAnalyzer ==
    \/ AnalyseExtraction
    \/ AnalysisDone

SpecAnalyzer == InitAnalyzer /\ [][NextAnalyzer]_vars


\* ---- properties of the analyzer ----

\* the extractions the loop has been through
Analysed == 1..(ai - 1)

\* both swap lists of an extraction are lists
HasSwaps(extraction) ==
    extraction.ethereum_leg.swaps # None /\ extraction.polygon_leg.swaps # None

\* the Polygon tokens that correspond to an Ethereum token: the token the
\* registry maps it to and its pinned legacy mappings
Corresponding(ethereum_token) ==
    (IF get_polygon_mapped_token(ethereum_token).raised = "None"
     THEN {get_polygon_mapped_token(ethereum_token).value}
     ELSE {})
    \cup {ETH_TO_POLYGON_TOKEN_MAP(ethereum_token)[i] :
              i \in 1..Len(ETH_TO_POLYGON_TOKEN_MAP(ethereum_token))}

\* C12: an analysed FROM_ETHEREUM extraction is marked cyclic exactly when the
\* token_out of its last Polygon swap is the registry-mapped token of the
\* token_in of its first Ethereum swap or one of the pinned legacy mappings of
\* that token; then the profit is last Polygon amount_out minus first Ethereum
\* amount_in with the symbol and the decimals of the Ethereum starting token;
\* otherwise both profit fields stay unset
C12_FromEthereumCyclic ==
    \A i \in Analysed :
        LET extraction == cross_chain_mev_extractions[i]
        IN  (extraction.direction = FROM_ETHEREUM /\ HasSwaps(extraction)) =>
                LET first == extraction.ethereum_leg.swaps[1]
                    last == extraction.polygon_leg.swaps[
                                Len(extraction.polygon_leg.swaps)]
                IN  /\ extraction.is_cyclic_arbitrage
                           <=> last.token_out \in Corresponding(first.token_in)
                    /\ extraction.is_cyclic_arbitrage =>
                           /\ extraction.profit_amount =
                                  <<format_balance(last.amount_out - first.amount_in,
                                                   TokenDecimals[first.token_in])>>
                           /\ extraction.profit_token_symbol =
                                  <<TokenSymbols[first.token_in]>>
                    /\ ~extraction.is_cyclic_arbitrage =>
                           /\ extraction.profit_amount = None
                           /\ extraction.profit_token_symbol = None

\* a FROM_ETHEREUM extraction has been analysed as cyclic with a profit of
\* 0.01 WETH, and another one as not cyclic
C12_Witness ==
    /\ \E i \in Analysed :
           /\ cross_chain_mev_extractions[i].direction = FROM_ETHEREUM
           /\ cross_chain_mev_extractions[i].is_cyclic_arbitrage
           /\ cross_chain_mev_extractions[i].profit_token_symbol = <<"WETH">>
           /\ cross_chain_mev_extractions[i].profit_amount =
                  <<[negative |-> FALSE, integer |-> 0, fraction |-> 1, places |-> 2]>>
    /\ \E i \in Analysed :
           /\ cross_chain_mev_extractions[i].direction = FROM_ETHEREUM
           /\ analysed[i] = "None"
           /\ ~cross_chain_mev_extractions[i].is_cyclic_arbitrage


\* symbol() and decimals() of the token contracts on Polygon; the second
\* Polygon representation of WETH carries a symbol of its own
PolygonTokenSymbols ==
    [pWETH |-> "WETH", pUSDC |-> "USDC", pDAI |-> "DAI", pWETH_legacy |-> "PoS-WETH"]
PolygonTokenDecimals == [pWETH |-> 2, pUSDC |-> 1, pDAI |-> 2, pWETH_legacy |-> 2]

\* C13: an analysed TO_ETHEREUM extraction is marked cyclic exactly when the
\* token_out of its last Ethereum swap and the token_in of its first Polygon
\* swap are mapped representations of each other; then the profit is last
\* Ethereum amount_out minus first Polygon amount_in, expressed in the units
\* (symbol and decimals) of the starting token, the token_in of the first
\* Polygon swap
C13_ToEthereumCyclic ==
    \A i \in Analysed :
        LET extraction == cross_chain_mev_extractions[i]
        IN  (extraction.direction = TO_ETHEREUM /\ HasSwaps(extraction)) =>
                LET first == extraction.polygon_leg.swaps[1]
                    last == extraction.ethereum_leg.swaps[
                                Len(extraction.ethereum_leg.swaps)]
                IN  /\ extraction.is_cyclic_arbitrage
                           <=> first.token_in \in Corresponding(last.token_out)
                    /\ extraction.is_cyclic_arbitrage =>
                           /\ extraction.profit_amount =
                                  <<format_balance(last.amount_out - first.amount_in,
                                                   PolygonTokenDecimals[first.token_in])>>
                           /\ extraction.profit_token_symbol =
                                  <<PolygonTokenSymbols[first.token_in]>>


\* C14: when the analyzer has gone through the list, every extraction has its
\* three gas fields filled, those whose cyclic-arbitrage check raised an error
\* included; when the Polygon bridge transaction is the swap transaction the
\* swap gas is the bridge gas
C14_GasFieldsFilled ==
    pc = "analysed" =>
        \A i \in 1..Len(cross_chain_mev_extractions) :
            LET extraction == cross_chain_mev_extractions[i]
            IN  /\ extraction.ethereum_leg.gas_paid # None
                /\ extraction.polygon_leg.bridge_transaction_gas_paid # None
                /\ extraction.polygon_leg.swap_transaction_gas_paid # None
                /\ extraction.polygon_leg.bridge_transaction_hash
                       = extraction.polygon_leg.swap_transaction_hash
                   => extraction.polygon_leg.swap_transaction_gas_paid
                          = extraction.polygon_leg.bridge_transaction_gas_paid


\* the lists the analyzer is given, as they were before the loop
\* (the loop changes only profit, cyclic and gas fields)
Unanalysed(extraction) ==
    [extraction EXCEPT !.is_cyclic_arbitrage = FALSE,
                       !.profit_amount = None,
                       !.profit_token_symbol = None,
                       !.ethereum_leg.gas_paid = None,
                       !.polygon_leg.bridge_transaction_gas_paid = None,
                       !.polygon_leg.swap_transaction_gas_paid = None]

C16_TransientFailureNeverSurfaces ==
    \A c \in Candidates :
        /\ outcome[c.transaction_hash] # "Exception"
        /\ (outcome[c.transaction_hash] # "pending"
            /\ outcome[c.transaction_hash] \notin ErrorKinds) =>
               Len(RecordsOf(cross_chain_mev_extractions, c.transaction_hash))
                   + Len(RecordsOf(cross_chain_mev_failed, c.transaction_hash)) = 1


(***************************************************************************)
(* The candidate selector (src/analysis/cross_chain_mev.py).               *)
(***************************************************************************)
\* a stored transaction (src/domain.py Transaction)
Transaction(block_number, hash, index, mev_type, interaction, coinbase_transfer_value) ==
    [block_number |-> block_number, transaction_hash |-> hash,
     transaction_index |-> index, mev_type |-> mev_type,
     polygon_bridge_interaction |-> interaction,
     coinbase_transfer_value |-> coinbase_transfer_value]

\* the rows of the range, in the order the database returns them
get_transactions(start, end) ==
    SelectSeq(database, LAMBDA t : t.block_number >= start /\ t.block_number <= end)

\* the defaultdict of lists: the rows of a block in their order, [] for a
\* block that has none
create_block_number_to_transactions_dict(transactions, block_number) ==
    SelectSeq(transactions, LAMBDA t : t.block_number = block_number)

\* the literal 0.1 is the double 0x1.999999999999ap-4 = Mantissa01 / 2^55
Mantissa01 == <<3277, 3276, 3276, 3276, 12>>

\* a variant that counts the tenth inclusively
is_transaction_non_atomic_mev_inclusive(transaction_, transactions_in_block) ==
    IF transaction_.mev_type # "SWAP" THEN FALSE
    ELSE IF transaction_.coinbase_transfer_value > 0 THEN TRUE
    ELSE Cmp(ShiftLeft(ToBig(transaction_.transaction_index), 55),
             RoundToDouble(MulBig(ToBig(transactions_in_block), Mantissa01))) <= 0

\* lines 77 to 85; 0.1 * transactions_in_block is one rounded float product,
\* scaled here by 2^55, and the int index compares exactly against it
is_transaction_non_atomic_mev(transaction_, transactions_in_block) ==
    IF transaction_.mev_type # "SWAP" THEN FALSE
    ELSE IF transaction_.coinbase_transfer_value > 0 THEN TRUE
    ELSE Cmp(ShiftLeft(ToBig(transaction_.transaction_index), 55),
             RoundToDouble(MulBig(ToBig(transactions_in_block), Mantissa01))) < 0

\* lines 63 to 75, the second list of the pair
analyze_block_transactions(transactions) ==
    SelectSeq(transactions,
              LAMBDA t : /\ is_transaction_non_atomic_mev(t, Len(transactions))
                         /\ t.polygon_bridge_interaction # NONE)

\* the for loop over range(block_number_start, block_number_end + 1) of lines
\* 42 to 51, taken by halves: one entry per block with candidates, ascending
RECURSIVE CandidateEntries(_, _, _)
CandidateEntries(transactions, lo, hi) ==
    IF lo > hi THEN <<>>
    ELSE IF lo = hi
    THEN LET cross_chain_mev_transactions ==
                 analyze_block_transactions(
                     create_block_number_to_transactions_dict(transactions, lo))
         IN  IF Len(cross_chain_mev_transactions) > 0
             THEN <<[key |-> lo, transactions |-> cross_chain_mev_transactions]>>
             ELSE <<>>
    ELSE CandidateEntries(transactions, lo, (lo + hi) \div 2)
         \o CandidateEntries(transactions, (lo + hi) \div 2 + 1, hi)

\* lines 17 to 52
find_cross_chain_mev_candidates(start, end) ==
    CandidateEntries(get_transactions(start, end), start, end)


(***************************************************************************)
(* The run over a block range (src/__main__.py analyze_data): the range is  *)
(* cut in batches; each batch is selected, matched, analysed and written to *)
(* the two output files.  A file is the sequence of what was written to it: *)
(* the characters "[", ",", "\n", "]" and, as one element each, the JSON     *)
(* texts of the records.                                                    *)
(***************************************************************************)
batch_size == 1000

\* most rows of the database and most Transfer logs of the chain of a run
MaxRows == 2
MaxRunLogs == 2

\* the last block of the batch that starts at block_number_start: the loop
\* body takes batch_size blocks on, the call after the loop goes to the end
InLoop == block_number_start + batch_size < block_number_end
BatchEnd == IF InLoop THEN block_number_start + batch_size ELSE block_number_end

\* json.dumps(dataclasses.asdict(record), indent=4): the text of the record
Dumps(record) == ToString(record)

\* the writes of one with-block of analyze_data_batch (lines 62 to 66)
RECURSIVE WriteRecords(_, _)
WriteRecords(file, records) ==
    IF records = <<>> THEN file
    ELSE WriteRecords(file \o <<Dumps(Head(records)), ",", "\n">>, Tail(records))

\* total_len (lines 53 to 55)
RECURSIVE TotalLen(_)
TotalLen(bs) == IF bs = <<>> THEN 0 ELSE Len(Head(bs).transactions) + TotalLen(Tail(bs))

\* a variant that cuts the separator of an empty array too
Close_always(file, number) == SubSeq(file, 1, Len(file) - 2) \o <<"]">>

\* lines 127 to 139: seek(-2, os.SEEK_END) and truncate() when records were
\* written, then the closing bracket
Close(file, number) ==
    (IF number > 0 THEN SubSeq(file, 1, Len(file) - 2) ELSE file) \o <<"]">>

\* analyze_data_batch up to the call of the matcher (lines 50 to 56), called
\* from the loop (line 94) or after it (line 108)
StartBatch ==
    /\ pc = "batch"
    /\ blocks' = find_cross_chain_mev_candidates(block_number_start, BatchEnd)
    /\ bi' = 1 /\ ti' = 1 /\ locals' = <<>>
    /\ cross_chain_mev_extractions' = <<>>
    /\ cross_chain_mev_failed' = <<>>
    /\ ai' = 1 /\ analysed' = <<>>
    /\ pc' = "block"
    /\ UNCHANGED <<chain, block_timestamp, outcome, searches, rpc_faults, tol_in,
                   tol_out, extractions_result, extractions_failed,
                   block_number_start, block_number_end, counts, database, sel_out, fetch_vars>>

\* the rest of analyze_data_batch (lines 62 to 75)
WriteBatch ==
    /\ pc = "analysed"
    /\ extractions_result' = WriteRecords(extractions_result, cross_chain_mev_extractions)
    /\ extractions_failed' = WriteRecords(extractions_failed, cross_chain_mev_failed)
    /\ pc' = "batch_returned"
    /\ UNCHANGED <<chain, blocks, bi, ti, block_timestamp, locals,
                   cross_chain_mev_extractions, cross_chain_mev_failed, outcome,
                   searches, rpc_faults, tol_in, tol_out, ai, analysed,
                   block_number_start, block_number_end, counts, database, sel_out, fetch_vars>>

\* the three sums of lines 97 to 102 and 111 to 116
Sums ==
    [candidates |-> counts.candidates + TotalLen(blocks),
     fulfilled |-> counts.fulfilled + Len(cross_chain_mev_extractions),
     bridged_back |-> counts.bridged_back + Len(cross_chain_mev_failed)]

\* the end of the loop body (lines 97 to 103)
LoopReturn ==
    /\ pc = "batch_returned" /\ InLoop
    /\ counts' = Sums
    /\ block_number_start' = block_number_start + batch_size
    /\ pc' = "batch"
    /\ UNCHANGED <<chain, blocks, bi, ti, block_timestamp, locals,
                   cross_chain_mev_extractions, cross_chain_mev_failed, outcome,
                   searches, rpc_faults, tol_in, tol_out, ai, analysed,
                   extractions_result, extractions_failed, block_number_end,
                   database, sel_out, fetch_vars>>

\* the end of analyze_data after the last batch (lines 111 to 139)
FinalReturn ==
    /\ pc = "batch_returned" /\ ~InLoop
    /\ counts' = Sums
    /\ extractions_result' = Close(extractions_result, Sums.fulfilled)
    /\ extractions_failed' = Close(extractions_failed, Sums.bridged_back)
    /\ pc' = "done"
    /\ UNCHANGED <<chain, blocks, bi, ti, block_timestamp, locals,
                   cross_chain_mev_extractions, cross_chain_mev_failed, outcome,
                   searches, rpc_faults, tol_in, tol_out, ai, analysed,
                   block_number_start, block_number_end, database, sel_out, fetch_vars>>

\* the rows stored for the range: the transactions of CandidateUniverse, those
\* at index 1 without a payment to the block builder
Rows ==
    [i \in 1..Len(CandidateUniverse) |->
        [CandidateUniverse[i] EXCEPT
            !.coinbase_transfer_value =
                IF CandidateUniverse[i].transaction_index = 1 THEN 0 ELSE 1]]

Databases ==
    {Pick(Rows, S, 1) : S \in {T \in SUBSET (1..Len(Rows)) : Cardinality(T) <= MaxRows}}

RunChains ==
    {Pick(LogUniverse, S, 1) :
        S \in {T \in SUBSET (1..Len(LogUniverse)) : Cardinality(T) <= MaxRunLogs}}

\* analyze_data up to the loop (lines 81 to 92): counters at 0, '[\n' in both files
InitRun ==
    /\ chain \in RunChains
    /\ database \in Databases
    /\ block_number_start = 100
    /\ block_number_end \in {1100, 1101}
    /\ counts = [candidates |-> 0, fulfilled |-> 0, bridged_back |-> 0]
    /\ extractions_result = <<"[", "\n">>
    /\ extractions_failed = <<"[", "\n">>
    /\ pc = "batch"
    /\ blocks = <<>>
    /\ bi = 1 /\ ti = 1
    /\ block_timestamp = 0
    /\ locals = <<>>
    /\ cross_chain_mev_extractions = <<>>
    /\ cross_chain_mev_failed = <<>>
    /\ outcome = [h \in Hashes |-> "pending"]
    /\ searches = [h \in Hashes |-> <<>>]
    /\ rpc_faults = 0
    /\ tol_in = <<>> /\ tol_out = None
    /\ ai = 1 /\ analysed = <<>>
    /\ sel_out = None
    /\ FetchIdle

NextRun ==
    \/ StartBatch
    \/ StartBlock
    \/ EthereumSwaps
    \/ EthereumParties
    \/ BridgeInformation
    \/ BridgeInformationRetry
    \/ FindBlock
    \/ BridgeSearch
    \/ BridgeSwaps
    \/ SwapSearch
    \/ SwapDecode
    \/ BridgeBackSearch
    \/ PolygonParties
    \/ RpcError
    \/ ReturnLists
    \/ AnalyseExtraction
    \/ AnalysisDone
    \/ WriteBatch
    \/ LoopReturn
    \/ FinalReturn

SpecRun == InitRun /\ [][NextRun]_vars


\* ---- properties of the run ----

\* the JSON texts of a file, in their order
Objects(file) == SelectSeq(file, LAMBDA x : x \notin {"[", "]", ",", "\n"})

\* the texts, each followed by ',\n'
RECURSIVE Terminated(_)
Terminated(objects) ==
    IF objects = <<>> THEN <<>>
    ELSE <<Head(objects), ",", "\n">> \o Terminated(Tail(objects))

\* the texts separated by ',\n'
RECURSIVE Separated(_)
Separated(objects) ==
    IF Len(objects) <= 1 THEN objects
    ELSE <<Head(objects), ",", "\n">> \o Separated(Tail(objects))

\* the last n elements of a sequence
LastOf(seq, n) == SubSeq(seq, Len(seq) - n + 1, Len(seq))

\* C17: when analyze_data has completed, each output file is '[', the records
\* separated by commas with no separator after the last one, and ']', for any
\* numbers of records, zero included, and holds as many records as the batches
\* reported; the records are those of the batches in emission order: until
\* then the file is '[' and the records written so far, and when a batch has
\* been written its records are the last ones of the file, in their order
C17_WellFormedArrays ==
    /\ pc = "done" =>
           /\ extractions_result
                  = <<"[", "\n">> \o Separated(Objects(extractions_result)) \o <<"]">>
           /\ extractions_failed
                  = <<"[", "\n">> \o Separated(Objects(extractions_failed)) \o <<"]">>
           /\ Len(Objects(extractions_result)) = counts.fulfilled
           /\ Len(Objects(extractions_failed)) = counts.bridged_back
    /\ pc # "done" =>
           /\ extractions_result
                  = <<"[", "\n">> \o Terminated(Objects(extractions_result))
           /\ extractions_failed
                  = <<"[", "\n">> \o Terminated(Objects(extractions_failed))
    /\ pc \in {"batch_returned", "done"} =>
           /\ LastOf(Objects(extractions_result), Len(cross_chain_mev_extractions))
                  = [i \in 1..Len(cross_chain_mev_extractions) |->
                        Dumps(cross_chain_mev_extractions[i])]
           /\ LastOf(Objects(extractions_failed), Len(cross_chain_mev_failed))
                  = [i \in 1..Len(cross_chain_mev_failed) |->
                        Dumps(cross_chain_mev_failed[i])]

\* a run over two batches has completed with two records in the file of the
\* extractions and none in the file of the failed ones
C17_Witness ==
    /\ pc = "done"
    /\ block_number_start = 1100
    /\ Len(Objects(extractions_result)) = 2
    /\ extractions_failed = <<"[", "\n", "]">>


\* C18: the run completes having visited every candidate exactly once: when
\* both files are closed, the number of candidates handed to the matcher over
\* all batches is the number of candidates of the block range of the run
\* (blocks 100 to block_number_end), and each of them was settled
C18_EveryCandidateOnce ==
    pc = "done" =>
        /\ counts.candidates
               = TotalLen(find_cross_chain_mev_candidates(100, block_number_end))
        /\ \A i \in 1..Len(database) :
               (/\ is_transaction_non_atomic_mev(
                       database[i],
                       Len(create_block_number_to_transactions_dict(
                               database, database[i].block_number)))
                /\ database[i].block_number <= block_number_end) =>
                   outcome[database[i].transaction_hash] # "pending"


(***************************************************************************)
(* The selector by itself, on blocks of up to MaxBlockSize stored           *)
(* transactions.  Block 200 holds BlockSize transactions: its first three   *)
(* are drawn from Profiles, the others are no MEV transactions; block 201   *)
(* has no stored transaction; block 202 holds one candidate.                *)
(***************************************************************************)
\* the sizes of block 200
BlockSizes == {3, 10, 11, 20, 21, 30}

\* MEV type, payment to the block builder, bridge interaction
Profiles ==
    {<<"SWAP", 0, FROM_ETHEREUM>>, <<"SWAP", 1, TO_ETHEREUM>>,
     <<"SWAP", 0, NONE>>, <<"ARB", 1, FROM_ETHEREUM>>}

StoredBlock(size, profile) ==
    [k \in 1..size |->
        IF k <= 3
        THEN Transaction(200, ToString(200 + k - 1), k - 1,
                         profile[k][1], profile[k][3], profile[k][2])
        ELSE Transaction(200, ToString(200 + k - 1), k - 1, "NONE", NONE, 0)]

RECURSIVE Reverse(_)
Reverse(seq) == IF seq = <<>> THEN <<>> ELSE Reverse(Tail(seq)) \o <<Head(seq)>>

InitSelector ==
    /\ \E size \in BlockSizes, profile \in [1..3 -> Profiles], reversed \in BOOLEAN :
           LET rows == StoredBlock(size, profile)
                           \o <<Transaction(202, "402", 0, "SWAP", TO_ETHEREUM, 0)>>
           IN  database = IF reversed THEN Reverse(rows) ELSE rows
    /\ block_number_start \in {200, 201}
    /\ block_number_end \in {201, 202}
    /\ sel_out = None
    /\ FetchIdle
    /\ counts = [candidates |-> 0, fulfilled |-> 0, bridged_back |-> 0]
    /\ extractions_result = <<>> /\ extractions_failed = <<>>
    /\ ai = 1 /\ analysed = <<>>
    /\ chain = <<>> /\ blocks = <<>>
    /\ bi = 1 /\ ti = 1
    /\ pc = "select"
    /\ block_timestamp = 0
    /\ locals = <<>>
    /\ cross_chain_mev_extractions = <<>>
    /\ cross_chain_mev_failed = <<>>
    /\ outcome = [h \in Hashes |-> "pending"]
    /\ searches = [h \in Hashes |-> <<>>]
    /\ rpc_faults = 0
    /\ tol_in = <<>> /\ tol_out = None

\* one call of find_cross_chain_mev_candidates
Select ==
    /\ sel_out = None
    /\ sel_out' = <<find_cross_chain_mev_candidates(block_number_start, block_number_end)>>
    /\ UNCHANGED <<matcher_vars, tol_in, tol_out, ai, analysed,
                   extractions_result, extractions_failed, block_number_start,
                   block_number_end, counts, database, fetch_vars>>

NextSelector == Select

SpecSelector == InitSelector /\ [][NextSelector]_vars

\* ---- properties of the selector ----

\* the stored transactions of a block, in the order of the database
StoredIn(block_number) ==
    SelectSeq(database, LAMBDA t : t.block_number = block_number)

\* the reference filter on the stored transactions of a block
Reference(block_number) ==
    SelectSeq(StoredIn(block_number),
              LAMBDA t : /\ t.mev_type = "SWAP"
                         /\ \/ t.coinbase_transfer_value > 0
                            \/ 10 * t.transaction_index < Len(StoredIn(block_number))
                         /\ t.polygon_bridge_interaction # NONE)

\* C19: the output of the selector is the reference filter: it has one entry
\* for each block of [start, end] that has a transaction of MEV type SWAP
\* with a payment to the block builder or an index within the first 10% of
\* the block's transactions, and with a bridge interaction other than NONE;
\* the entry lists exactly those transactions, unchanged and in their input
\* order; the entries are in block order; other blocks have no entry
C19_SelectorIsReferenceFilter ==
    sel_out # None =>
        LET out == sel_out[1]
        IN  /\ \A k \in 1..Len(out) :
                   /\ out[k].key \in block_number_start..block_number_end
                   /\ out[k].transactions = Reference(out[k].key)
                   /\ out[k].transactions # <<>>
                   /\ k > 1 => out[k - 1].key < out[k].key
            /\ \A b \in block_number_start..block_number_end :
                   Reference(b) # <<>> => \E k \in 1..Len(out) : out[k].key = b

\* the selector has returned two entries; the first holds a transaction
\* without payment to the block builder at index 2, which the 10% rule lets in,
\* and the database holds a swap without bridge interaction, which is left out
C19_Witness ==
    /\ sel_out # None
    /\ Len(sel_out[1]) = 2
    /\ \E i \in 1..Len(sel_out[1][1].transactions) :
           /\ sel_out[1][1].transactions[i].transaction_index = 2
           /\ sel_out[1][1].transactions[i].coinbase_transfer_value = 0
    /\ \E i \in 1..Len(database) :
           /\ database[i].mev_type = "SWAP"
           /\ database[i].polygon_bridge_interaction = NONE


\* ---- the shortcut of the TO_ETHEREUM search ----

\* the steps of the searches made for a candidate, in their order
StepsOf(c) ==
    [i \in 1..Len(searches[c.transaction_hash]) |->
        searches[c.transaction_hash][i].step]

\* TO_ETHEREUM: the Ethereum side was read and the burn is the only one
ToEthereumBurnFound(c) ==
    /\ c.polygon_bridge_interaction = TO_ETHEREUM
    /\ EthereumSideRead(c)
    /\ Len(SenderBurns(c)) = 1

\* the decoding of the burn transaction
BurnSwaps(c) == process_transaction("polygon", SenderBurns(c)[1].transactionHash)

\* C20: a TO_ETHEREUM candidate whose burn is uniquely found, once processed
\* with no node call raising: if the burn transaction decodes to at least one
\* swap the candidate has exactly one extraction, with the burn transaction as
\* both the Polygon bridge and the Polygon swap transaction and with the swaps
\* of the burn transaction, and the bridge search is the only search made for
\* it (no backward swap search, no fallback mint search); if the burn
\* transaction has no swap the backward swap search is made next.  A backward
\* swap search is made for a TO_ETHEREUM candidate only in the second case.
C20_SameTransactionShortcut ==
    \A c \in Candidates :
        /\ (Settled(c) /\ ToEthereumBurnFound(c)) =>
               /\ (BurnSwaps(c).raised = "None" /\ BurnSwaps(c).value # None) =>
                      /\ StepsOf(c) = <<"bridge">>
                      /\ Len(RecordsOf(cross_chain_mev_failed, c.transaction_hash)) = 0
                      /\ Len(RecordsOf(cross_chain_mev_extractions,
                                       c.transaction_hash)) = 1
                      /\ LET leg == RecordsOf(cross_chain_mev_extractions,
                                              c.transaction_hash)[1].polygon_leg
                         IN  /\ leg.bridge_transaction_hash
                                    = SenderBurns(c)[1].transactionHash
                             /\ leg.swap_transaction_hash
                                    = SenderBurns(c)[1].transactionHash
                             /\ leg.swaps = BurnSwaps(c).value
               /\ BurnSwaps(c) = Return(None) =>
                      /\ Len(StepsOf(c)) >= 2
                      /\ SubSeq(StepsOf(c), 1, 2) = <<"bridge", "swap">>
        /\ (c.polygon_bridge_interaction = TO_ETHEREUM
            /\ \E i \in 1..Len(StepsOf(c)) : StepsOf(c)[i] = "swap") =>
               /\ ToEthereumBurnFound(c)
               /\ BurnSwaps(c) = Return(None)

\* the run has returned and a TO_ETHEREUM candidate took the shortcut: one
\* search, the bridge search, and one extraction, whose Polygon bridge and swap
\* transactions are both the burn transaction
C20_Witness ==
    /\ pc = "returned"
    /\ \E c \in Candidates :
           /\ Settled(c) /\ ToEthereumBurnFound(c)
           /\ BurnSwaps(c).raised = "None" /\ BurnSwaps(c).value # None
           /\ StepsOf(c) = <<"bridge">>
           /\ Len(RecordsOf(cross_chain_mev_extractions, c.transaction_hash)) = 1
           /\ RecordsOf(cross_chain_mev_extractions, c.transaction_hash)[1]
                  .polygon_leg.swap_transaction_hash
                  = SenderBurns(c)[1].transactionHash


\* ---- the windows and the order of the searches ----

\* the searches made for a candidate, in their order
SearchesOf(c) == searches[c.transaction_hash]

\* the block of the bridge event the first search of a candidate returned
BridgeBlockOf(c) == SearchesOf(c)[1].result.value.blockNumber

\* C21: the search windows depend on the direction and are bounded, one hour
\* being 1200 Polygon blocks and five hours 6000.  FROM_ETHEREUM: the bridge
\* search is over [anchor, anchor + 1200], the swap search and the fallback
\* search over [mintBlock, mintBlock + 1200], and no search starts before the
\* anchor.  TO_ETHEREUM: the bridge search is over [anchor - 6000, anchor], the
\* swap search and the fallback search over [burnBlock - 1200, burnBlock], and
\* no search ends after the anchor.
C21_SearchWindows ==
    \A c \in Candidates :
        \A i \in 1..Len(SearchesOf(c)) :
            LET s == SearchesOf(c)[i]
            IN  IF c.polygon_bridge_interaction = FROM_ETHEREUM
                THEN /\ s.from_block >= AnchorOf(c)
                     /\ s.step = "bridge" =>
                            /\ s.from_block = AnchorOf(c)
                            /\ s.to_block = AnchorOf(c) + 1200
                     /\ s.step \in {"swap", "bridge_back"} =>
                            /\ s.from_block = BridgeBlockOf(c)
                            /\ s.to_block = BridgeBlockOf(c) + 1200
                ELSE /\ s.to_block <= AnchorOf(c)
                     /\ s.step = "bridge" =>
                            /\ s.from_block = AnchorOf(c) - 6000
                            /\ s.to_block = AnchorOf(c)
                     /\ s.step \in {"swap", "bridge_back"} =>
                            /\ s.from_block = BridgeBlockOf(c) - 1200
                            /\ s.to_block = BridgeBlockOf(c)

\* the run has returned; a FROM_ETHEREUM candidate went through the three
\* searches and a TO_ETHEREUM candidate through the bridge and the swap search,
\* the bridge events not being at the anchors
C21_Witness ==
    /\ pc = "returned"
    /\ \E c \in Candidates :
           /\ c.polygon_bridge_interaction = FROM_ETHEREUM
           /\ Len(SearchesOf(c)) = 3
           /\ BridgeBlockOf(c) > AnchorOf(c)
    /\ \E c \in Candidates :
           /\ c.polygon_bridge_interaction = TO_ETHEREUM
           /\ Len(SearchesOf(c)) >= 2
           /\ BridgeBlockOf(c) < AnchorOf(c)


\* the bridge events a bridge search for the candidate can accept
BridgeEventsOf(c) ==
    IF c.polygon_bridge_interaction = FROM_ETHEREUM
    THEN ReceiverMints(c) ELSE SenderBurns(c)

\* C22: the searches of a candidate are made one after the other, bridge
\* search, swap search, fallback search.  A second search is made only when
\* the bridge search returned the one bridge event of its window, and the
\* windows of the second and the third search are anchored on the block of
\* that event; the fallback search is made only after the swap search failed.
\* When the bridge search fails, with no match or several, no other search is
\* made for the candidate and it has a record in neither list.
C22_StepsAreSequential ==
    \A c \in Candidates :
        LET S == SearchesOf(c)
        IN  /\ StepsOf(c) = SubSeq(<<"bridge", "swap", "bridge_back">>, 1, Len(S))
            /\ Len(S) >= 2 =>
                   /\ Len(BridgeEventsOf(c)) = 1
                   /\ S[1].result = Return(BridgeEventsOf(c)[1])
                   /\ \A i \in 2..Len(S) :
                          IF c.polygon_bridge_interaction = FROM_ETHEREUM
                          THEN S[i].from_block = BridgeEventsOf(c)[1].blockNumber
                          ELSE S[i].to_block = BridgeEventsOf(c)[1].blockNumber
            /\ Len(S) = 3 => S[2].result.raised = "MatchedLogsError"
            /\ (Len(S) >= 1 /\ Len(BridgeEventsOf(c)) # 1) =>
                   /\ Len(S) = 1
                   /\ S[1].result.raised = "MatchedLogsError"
                   /\ Len(RecordsOf(cross_chain_mev_extractions, c.transaction_hash)) = 0
                   /\ Len(RecordsOf(cross_chain_mev_failed, c.transaction_hash)) = 0

\* the run has returned; one candidate went through the three searches in
\* order and another one stopped at a bridge search that found several bridge
\* events, with no record
C22_Witness ==
    /\ pc = "returned"
    /\ \E c \in Candidates : StepsOf(c) = <<"bridge", "swap", "bridge_back">>
    /\ \E c \in Candidates :
           /\ Len(SearchesOf(c)) = 1
           /\ Len(BridgeEventsOf(c)) > 1
           /\ outcome[c.transaction_hash] = "MatchedLogsError"


\* ---- the role filter ----

\* does the role filter, with the amount filter passed, accept the log?
Accepts(log, is_bridge_transaction, polygon_bridge_interaction, party) ==
    MatchedLogs(<<log>>, log.args.value, is_bridge_transaction,
                polygon_bridge_interaction, party) = <<log>>

\* C23: in a bridge search a log is accepted only if one side is the zero
\* address and the other side is the known counterparty: in the FROM_ETHEREUM
\* role (mint) `from` is the zero address and `to` the receiver, in the
\* TO_ETHEREUM role (burn) `to` is the zero address and `from` the sender.
\* This is so for every log of the chain the matcher is started on (the chain
\* does not change during the run) and every party, and for the log every
\* bridge search and fallback search of the run returned.  For a
\* direction and a counterparty no log passes both the bridge filter of the
\* fallback search (the role of the opposite direction) and the
\* plain-transfer filter of the swap search, nor both the bridge filter and
\* the plain-transfer filter of the same role.
C23_BridgeRoleFilter ==
    /\ (pc = "block" /\ bi = 1) => \A i \in 1..Len(chain) : \A party \in {Searcher, Pool} :
           LET log == chain[i]
               mint == Accepts(log, TRUE, FROM_ETHEREUM, party)
               burn == Accepts(log, TRUE, TO_ETHEREUM, party)
               out == Accepts(log, FALSE, FROM_ETHEREUM, party)
               in == Accepts(log, FALSE, TO_ETHEREUM, party)
           IN  /\ mint <=> (log.args.from = ADDRESS_ZERO /\ log.args.to = party)
               /\ burn <=> (log.args.to = ADDRESS_ZERO /\ log.args.from = party)
               /\ ~(burn /\ out) /\ ~(mint /\ in)
               /\ ~(mint /\ out) /\ ~(burn /\ in)
    /\ \A c \in Candidates : \A i \in 1..Len(SearchesOf(c)) :
           LET s == SearchesOf(c)[i]
           IN  (s.is_bridge_transaction /\ s.result.raised = "None") =>
                   IF s.polygon_bridge_interaction = FROM_ETHEREUM
                   THEN /\ s.result.value.args.from = ADDRESS_ZERO
                        /\ s.result.value.args.to = s.sender_or_receiver
                   ELSE /\ s.result.value.args.to = ADDRESS_ZERO
                        /\ s.result.value.args.from = s.sender_or_receiver

\* the run has returned; the chain holds a mint to the searcher, a burn by
\* another party and a plain transfer, and the bridge search and the fallback
\* search of a candidate each returned a bridge event
C23_Witness ==
    /\ pc = "returned"
    /\ \E i, j, k \in 1..Len(chain) :
           /\ chain[i].args.from = ADDRESS_ZERO /\ chain[i].args.to = Searcher
           /\ chain[j].args.to = ADDRESS_ZERO
           /\ chain[k].args.from # ADDRESS_ZERO /\ chain[k].args.to # ADDRESS_ZERO
    /\ \E c \in Candidates :
           /\ Len(SearchesOf(c)) = 3
           /\ SearchesOf(c)[1].result.raised = "None"
           /\ SearchesOf(c)[3].result.raised = "None"


(***************************************************************************)
(* The swap decoder on its own: SwapProcessor.process_transaction applied   *)
(* to receipts with up to MaxSwapLogs Swap logs of either pool shape.       *)
(***************************************************************************)
MaxSwapLogs == 3

\* a Swap log of a receipt: absent, or of a V2 or a V3 pool, in either direction
SwapLogShapes ==
    [kind : {"v2", "v3"}, address : {"poolWU", "poolDW"}, zero_for_one : BOOLEAN]
        \cup {[kind |-> "none", address |-> "poolWU", zero_for_one |-> FALSE]}

\* the decoded log of a shape at a log index
SwapLog(shape, logIndex) ==
    IF shape.kind = "v2"
    THEN IF shape.zero_for_one THEN V2(shape.address, logIndex, 3, 0, 0, 1000)
                               ELSE V2(shape.address, logIndex, 0, 3, 50, 0)
    ELSE IF shape.zero_for_one THEN V3(shape.address, logIndex, 50, -3)
                               ELSE V3(shape.address, logIndex, -3, 1000)

\* events.Swap().process_receipt(receipt): the logs of one pool shape, in the
\* order of the receipt (ascending log index)
RECURSIVE DecodedLogs(_, _, _)
DecodedLogs(shapes, kind, last) ==
    IF last = 0 THEN <<>>
    ELSE DecodedLogs(shapes, kind, last - 1)
         \o (IF shapes[last].kind = kind THEN <<SwapLog(shapes[last], last)>> ELSE <<>>)

\* the receipt with the given shape at each log index
SwapReceipt(shapes) ==
    [NoReceipt EXCEPT !.v2 = DecodedLogs(shapes, "v2", MaxSwapLogs),
                      !.v3 = DecodedLogs(shapes, "v3", MaxSwapLogs)]

InitSwap ==
    /\ chain = <<>> /\ blocks = <<>> /\ bi = 1 /\ ti = 1 /\ pc = "swap"
    /\ block_timestamp = 0 /\ locals = <<>>
    /\ cross_chain_mev_extractions = <<>> /\ cross_chain_mev_failed = <<>>
    /\ outcome = <<>> /\ searches = <<>> /\ rpc_faults = 0
    /\ tol_in \in {[transaction_hash |-> h, shapes |-> s] :
                       h \in {"t1", "t2"}, s \in [1..MaxSwapLogs -> SwapLogShapes]}
    /\ tol_out = None
    /\ ai = 1 /\ analysed = <<>> /\ extractions_result = <<>> /\ extractions_failed = <<>>
    /\ block_number_start = 0 /\ block_number_end = 0 /\ counts = <<0, 0>>
    /\ database = <<>> /\ sel_out = None
    /\ FetchIdle

\* one call of process_transaction on the receipt
DecodeSwaps ==
    /\ pc = "swap" /\ tol_out = None
    /\ tol_out' = <<ProcessReceipt(SwapReceipt(tol_in.shapes), tol_in.transaction_hash)>>
    /\ UNCHANGED <<matcher_vars, tol_in, app_vars>>

NextSwap == DecodeSwaps

SpecSwap == InitSwap /\ [][NextSwap]_vars

\* the log indexes that carry a Swap log, and the swap decoded at one of them
SwapIndexes == {i \in 1..MaxSwapLogs : tol_in.shapes[i].kind # "none"}
SwapAt(i) ==
    IF tol_in.shapes[i].kind = "v2" THEN process_v2_swap(SwapLog(tol_in.shapes[i], i))
                                    ELSE process_v3_swap(SwapLog(tol_in.shapes[i], i))

\* every swap hands its token_out to the next swap in log order as token_in
Chained ==
    \A i, j \in SwapIndexes :
        (i < j /\ ~\E k \in SwapIndexes : i < k /\ k < j)
            => SwapAt(i).token_out = SwapAt(j).token_in

\* C24: on a transaction with two or more decoded Swap logs of either pool
\* shape the decoder returns the swaps ordered by log index exactly when every
\* adjacent pair in that order is chained (token_out = token_in); otherwise it
\* raises SwapProcessorError with the transaction hash and returns no swaps.
C24_SortedOrRejected ==
    (tol_out # None /\ Cardinality(SwapIndexes) >= 2) =>
        LET result == tol_out[1]
        IN  /\ result.raised = "None" <=> Chained
            /\ result.raised = "None" =>
                   /\ Len(result.value) = Cardinality(SwapIndexes)
                   /\ \A n \in 1..Len(result.value) :
                          /\ result.value[n].event_index \in SwapIndexes
                          /\ result.value[n] = SwapAt(result.value[n].event_index)
                          /\ n > 1 => result.value[n - 1].event_index
                                          < result.value[n].event_index
            /\ result.raised # "None" =>
                   /\ result.raised = "SwapProcessorError"
                   /\ result.payload = tol_in.transaction_hash

\* a V3 swap logged before a V2 swap was put first and the chained pair
\* returned
C24_Witness ==
    /\ tol_out # None /\ tol_out[1].raised = "None"
    /\ tol_in.shapes[1].kind = "v3" /\ tol_in.shapes[2].kind = "none"
    /\ tol_in.shapes[3].kind = "v2"
    /\ Len(tol_out[1].value) = 2
    /\ tol_out[1].value[1].event_index = 1


(***************************************************************************)
(* The chunking of PolygonService.get_transfer_logs on its own.             *)
(***************************************************************************)
MaxFromBlock == 2
MaxSpan == 1300

InitChunks ==
    /\ chain = <<>> /\ blocks = <<>> /\ bi = 1 /\ ti = 1 /\ pc = "chunks"
    /\ block_timestamp = 0 /\ locals = <<>>
    /\ cross_chain_mev_extractions = <<>> /\ cross_chain_mev_failed = <<>>
    /\ outcome = <<>> /\ searches = <<>> /\ rpc_faults = 0
    /\ tol_in \in {[from_block |-> f, to_block |-> f + n] :
                       f \in 0..MaxFromBlock, n \in 0..MaxSpan}
    /\ tol_out = None
    /\ ai = 1 /\ analysed = <<>> /\ extractions_result = <<>> /\ extractions_failed = <<>>
    /\ block_number_start = 0 /\ block_number_end = 0 /\ counts = <<0, 0>>
    /\ database = <<>> /\ sel_out = None
    /\ FetchIdle

\* one call of get_transfer_logs: the queries it sends to the node
QueryLogs ==
    /\ pc = "chunks" /\ tol_out = None
    /\ tol_out' = <<LogQueries(tol_in.from_block, tol_in.to_block)>>
    /\ UNCHANGED <<matcher_vars, tol_in, app_vars>>

NextChunks == QueryLogs

SpecChunks == InitChunks /\ [][NextChunks]_vars

\* the queries whose range holds a block
QueriesOf(block) ==
    {n \in 1..Len(tol_out[1]) :
        tol_out[1][n].fromBlock <= block /\ block <= tol_out[1][n].toBlock}

\* C25: the queries of get_transfer_logs(from_block, to_block) cover every
\* block of [from_block, to_block] exactly once: none is skipped between
\* chunks, none is queried twice and none outside the range is queried.
C25_ChunksPartitionRange ==
    tol_out # None =>
        /\ \A block \in tol_in.from_block..tol_in.to_block :
               Cardinality(QueriesOf(block)) = 1
        /\ \A n \in 1..Len(tol_out[1]) :
               /\ tol_in.from_block <= tol_out[1][n].fromBlock
               /\ tol_out[1][n].fromBlock <= tol_out[1][n].toBlock
               /\ tol_out[1][n].toBlock <= tol_in.to_block

\* a range that took three queries
C25_Witness ==
    /\ tol_out # None
    /\ Len(tol_out[1]) = 3
    /\ tol_out[1][2].fromBlock = tol_out[1][1].toBlock + 1

\* C26: every query of get_transfer_logs spans at most max_block_range
\* blocks, the last one included.
C26_QuerySpanBounded ==
    tol_out # None =>
        \A n \in 1..Len(tol_out[1]) :
            tol_out[1][n].toBlock - tol_out[1][n].fromBlock + 1 <= max_block_range


\* no text is twice in a sequence
NoDuplicates(objects) ==
    \A i, j \in 1..Len(objects) : i # j => objects[i] # objects[j]

\* C27: the batches of analyze_data hand every block of the range to the
\* selection exactly once: no candidate selected for a batch was handed to
\* the matcher by an earlier batch, and no record is twice in an output file
C27_BatchesShareNoBlock ==
    /\ (pc = "block" /\ bi = 1) =>
           \A c \in Candidates : outcome[c.transaction_hash] = "pending"
    /\ pc = "done" =>
           /\ NoDuplicates(Objects(extractions_result))
           /\ NoDuplicates(Objects(extractions_failed))


(***************************************************************************)
(* DataFetcher.fetch_block_data (src/api_utilities/fetch.py): worker        *)
(* threads that share one queue of block numbers.                           *)
(***************************************************************************)
MaxFetchBlocks == 3
MaxConsumers == 2
MaxFetchFaults == 2

\* sorted(list(S))
RECURSIVE Sorted(_)
Sorted(S) ==
    IF S = {} THEN <<>>
    ELSE LET least == CHOOSE x \in S : \A y \in S : x <= y
         IN  <<least>> \o Sorted(S \ {least})

\* a worker thread: the statement it is about to run and its local block_number
Consumer(at, item) == [at |-> at, item |-> item]

\* the matcher and the application around it are not running
NoAnalysis ==
    /\ chain = <<>> /\ blocks = <<>> /\ bi = 1 /\ ti = 1 /\ pc = "fetch"
    /\ block_timestamp = 0 /\ locals = <<>>
    /\ cross_chain_mev_extractions = <<>> /\ cross_chain_mev_failed = <<>>
    /\ outcome = <<>> /\ searches = <<>> /\ rpc_faults = 0
    /\ tol_in = <<>> /\ tol_out = None
    /\ ai = 1 /\ analysed = <<>> /\ extractions_result = <<>> /\ extractions_failed = <<>>
    /\ counts = <<0, 0>> /\ database = <<>> /\ sel_out = None

\* fetch_block_data up to the start of the threads (lines 71 to 113): the
\* blocks of the range that are not stored are queued in ascending order
InitFetch ==
    /\ NoAnalysis
    /\ block_number_start = 1
    /\ block_number_end \in 1..MaxFetchBlocks
    /\ saved \in SUBSET (block_number_start..block_number_end)
    /\ queue = Sorted((block_number_start..block_number_end) \ saved)
    /\ unfinished_tasks = Len(queue)
    /\ consumers \in {[w \in 1..n |-> Consumer("get", None)] : n \in 1..MaxConsumers}
    /\ main = "join"
    /\ fetch_faults = 0
    /\ mev_added = {} /\ requests = {}

UnchangedByWorker ==
    UNCHANGED <<matcher_vars, tol_in, tol_out, ai, analysed, extractions_result,
                extractions_failed, block_number_start, block_number_end, counts,
                database, sel_out, main, mev_added, requests>>

\* q.get(block=False): an item, or queue.Empty and the end of the loop
Get ==
    \E w \in DOMAIN consumers :
        /\ consumers[w].at = "get"
        /\ IF queue = <<>>
           THEN /\ consumers' = [consumers EXCEPT ![w] = Consumer("exited", None)]
                /\ UNCHANGED queue
           ELSE /\ consumers' = [consumers EXCEPT ![w] = Consumer("fetch_block", <<Head(queue)>>)]
                /\ queue' = Tail(queue)
        /\ UNCHANGED <<unfinished_tasks, fetch_faults, saved>>
        /\ UnchangedByWorker

\* self.__ethereum_service.fetch_block(block_number) returned
FetchBlock ==
    \E w \in DOMAIN consumers :
        /\ consumers[w].at = "fetch_block"
        /\ consumers' = [consumers EXCEPT ![w].at = "save_block_data"]
        /\ UNCHANGED <<queue, unfinished_tasks, fetch_faults, saved>>
        /\ UnchangedByWorker

\* self.__save_block_data(block) returned
SaveBlockData ==
    \E w \in DOMAIN consumers :
        /\ consumers[w].at = "save_block_data"
        /\ saved' = saved \cup {consumers[w].item[1]}
        /\ consumers' = [consumers EXCEPT ![w].at = "task_done"]
        /\ UNCHANGED <<queue, unfinished_tasks, fetch_faults>>
        /\ UnchangedByWorker

\* q.task_done() at the end of the try block
TaskDone ==
    \E w \in DOMAIN consumers :
        /\ consumers[w].at = "task_done"
        /\ unfinished_tasks > 0
        /\ unfinished_tasks' = unfinished_tasks - 1
        /\ consumers' = [consumers EXCEPT ![w] = Consumer("get", None)]
        /\ UNCHANGED <<queue, fetch_faults, saved>>
        /\ UnchangedByWorker

\* an exception out of fetch_block or __save_block_data, nothing stored
WorkerException ==
    \E w \in DOMAIN consumers :
        /\ consumers[w].at \in {"fetch_block", "save_block_data"}
        /\ fetch_faults < MaxFetchFaults
        /\ fetch_faults' = fetch_faults + 1
        /\ consumers' = [consumers EXCEPT ![w].at = "except"]
        /\ UNCHANGED <<queue, unfinished_tasks, saved>>
        /\ UnchangedByWorker

\* except Exception: q.task_done()
ExceptTaskDone ==
    \E w \in DOMAIN consumers :
        /\ consumers[w].at = "except"
        /\ unfinished_tasks > 0
        /\ unfinished_tasks' = unfinished_tasks - 1
        /\ consumers' = [consumers EXCEPT ![w].at = "put"]
        /\ UNCHANGED <<queue, fetch_faults, saved>>
        /\ UnchangedByWorker

\* a variant that drops the block
Put_drop ==
    \E w \in DOMAIN consumers :
        /\ consumers[w].at = "put"
        /\ consumers' = [consumers EXCEPT ![w] = Consumer("get", None)]
        /\ UNCHANGED <<queue, unfinished_tasks, fetch_faults, saved>>
        /\ UnchangedByWorker

\* except Exception: q.put(block_number)
Put ==
    \E w \in DOMAIN consumers :
        /\ consumers[w].at = "put"
        /\ queue' = Append(queue, consumers[w].item[1])
        /\ unfinished_tasks' = unfinished_tasks + 1
        /\ consumers' = [consumers EXCEPT ![w] = Consumer("get", None)]
        /\ UNCHANGED <<fetch_faults, saved>>
        /\ UnchangedByWorker

UnchangedByMain ==
    UNCHANGED <<matcher_vars, tol_in, tol_out, ai, analysed, extractions_result,
                extractions_failed, block_number_start, block_number_end, counts,
                database, sel_out, queue, unfinished_tasks, consumers, fetch_faults,
                saved, mev_added, requests>>

\* for consumer_ in consumers: consumer_.join()
JoinConsumers ==
    /\ main = "join"
    /\ \A w \in DOMAIN consumers : consumers[w].at = "exited"
    /\ main' = "q.join"
    /\ UnchangedByMain

\* q.join()
QueueJoin ==
    /\ main = "q.join"
    /\ unfinished_tasks = 0
    /\ main' = "returned"
    /\ UnchangedByMain

NextFetch ==
    \/ Get
    \/ FetchBlock
    \/ SaveBlockData
    \/ TaskDone
    \/ WorkerException
    \/ ExceptTaskDone
    \/ Put
    \/ JoinConsumers
    \/ QueueJoin

\* the threads are scheduled and every call returns or raises
SpecFetch == InitFetch /\ [][NextFetch]_vars /\ WF_vars(NextFetch)

\* the workers that hold a block at one of the given statements
Holding(block, statements) ==
    {w \in DOMAIN consumers :
        consumers[w].at \in statements /\ consumers[w].item = <<block>>}

InQueue(block) == \E n \in 1..Len(queue) : queue[n] = block

\* no block of the range is lost: it is stored, queued, or held by a worker
\* that will store it or put it back
NotLost ==
    \A block \in block_number_start..block_number_end :
        \/ block \in saved
        \/ InQueue(block)
        \/ Holding(block, {"fetch_block", "save_block_data", "except", "put"}) # {}

\* the count of unfinished tasks is the queued items and the items being
\* worked on, so that it is zero when every worker has left its loop
TasksCounted ==
    /\ unfinished_tasks
           = Len(queue)
             + Cardinality({w \in DOMAIN consumers :
                   consumers[w].at \in {"fetch_block", "save_block_data",
                                        "task_done", "except"}})
    /\ (\A w \in DOMAIN consumers : consumers[w].at = "exited") => unfinished_tasks = 0

\* fetch_block_data has returned: every worker has exited and every block of
\* the range is stored
FetchReturned ==
    /\ main = "returned"
    /\ \A w \in DOMAIN consumers : consumers[w].at = "exited"
    /\ \A block \in block_number_start..block_number_end : block \in saved

\* C29: for every interleaving of the workers of fetch_block_data, a block
\* whose fetch or save raised is put back in the queue and not lost, the
\* count of unfinished tasks returns to zero, and, the fetch and save of each
\* block succeeding after finitely many exceptions, all workers exit, q.join()
\* returns and every block that was missing from the store has been saved.
C29_WorkersDrainQueue ==
    /\ [](NotLost /\ TasksCounted /\ (main = "returned" => FetchReturned))
    /\ <>FetchReturned

\* fetch_block_data has returned after MaxFetchFaults exceptions, with blocks
\* that were missing at the start
C29_Witness ==
    /\ FetchReturned
    /\ fetch_faults = MaxFetchFaults
    /\ block_number_end = MaxFetchBlocks


(***************************************************************************)
(* DataFetcher.__fetch_mev_block_data (src/api_utilities/fetch.py): worker  *)
(* threads that fetch the MEV details of an interval of consecutive stored  *)
(* blocks in requests of up to 100 blocks.                                  *)
(***************************************************************************)
\* the lengths of the interval
MevIntervalLengths == {1, 2, 99, 100, 101, 200}

\* the starts of the requests, in the order they are queued (lines 250 to 252)
MevStarts ==
    LET number_of_blocks == block_number_end - block_number_start + 1
        number_of_100_batches == number_of_blocks \div 100
    IN  <<block_number_start>>
        \o [n \in 1..number_of_100_batches |-> block_number_start + n * 100]

\* block_number_end_ of the worker (lines 221 to 224)
MevEnd(block_number_start_) ==
    IF block_number_start_ + 100 <= block_number_end
    THEN block_number_start_ + 100
    ELSE block_number_end

\* fetch_mev_block_data calls __fetch_mev_block_data with the ends of an
\* interval of consecutive stored blocks without MEV details; the threads
\* have been started
InitMev ==
    /\ NoAnalysis
    /\ block_number_start = 1
    /\ block_number_end \in {block_number_start + n - 1 : n \in MevIntervalLengths}
    /\ saved = block_number_start..block_number_end
    /\ mev_added = {}
    /\ requests = {}
    /\ queue = MevStarts
    /\ unfinished_tasks = Len(queue)
    /\ consumers \in {[w \in 1..n |-> Consumer("get", None)] : n \in 1..MaxConsumers}
    /\ main = "join"
    /\ fetch_faults = 0

UnchangedByMevWorker ==
    UNCHANGED <<matcher_vars, tol_in, tol_out, ai, analysed, extractions_result,
                extractions_failed, block_number_start, block_number_end, counts,
                database, sel_out, main, saved>>

\* q.get(block=False): a start of a request, or queue.Empty and the end of the loop
MevGet ==
    \E w \in DOMAIN consumers :
        /\ consumers[w].at = "get"
        /\ IF queue = <<>>
           THEN /\ consumers' = [consumers EXCEPT ![w] = Consumer("exited", None)]
                /\ UNCHANGED queue
           ELSE /\ consumers' = [consumers EXCEPT ![w] = Consumer("fetch_mev", <<Head(queue)>>)]
                /\ queue' = Tail(queue)
        /\ UNCHANGED <<unfinished_tasks, fetch_faults, mev_added, requests>>
        /\ UnchangedByMevWorker

\* fetch_mev_transactions_for_blocks(block_number_start_, block_number_end_ -
\* block_number_start_) answered and its transactions were updated
FetchMevTransactions ==
    \E w \in DOMAIN consumers :
        /\ consumers[w].at = "fetch_mev"
        /\ LET block_number_start_ == consumers[w].item[1]
           IN  requests' = requests \cup
                   {[block_number |-> block_number_start_,
                     count |-> MevEnd(block_number_start_) - block_number_start_]}
        /\ consumers' = [consumers EXCEPT ![w].at = "update_blocks"]
        /\ UNCHANGED <<queue, unfinished_tasks, fetch_faults, mev_added>>
        /\ UnchangedByMevWorker

\* update_blocks_with_mev(block_number_start_, block_number_end_): the stored
\* blocks of the range, both ends included
UpdateBlocksWithMev ==
    \E w \in DOMAIN consumers :
        /\ consumers[w].at = "update_blocks"
        /\ LET block_number_start_ == consumers[w].item[1]
           IN  mev_added' = mev_added \cup
                   {block \in saved : /\ block >= block_number_start_
                                      /\ block <= MevEnd(block_number_start_)}
        /\ consumers' = [consumers EXCEPT ![w].at = "task_done"]
        /\ UNCHANGED <<queue, unfinished_tasks, fetch_faults, requests>>
        /\ UnchangedByMevWorker

\* an exception out of the request or out of an update of the store
MevWorkerException ==
    \E w \in DOMAIN consumers :
        /\ consumers[w].at \in {"fetch_mev", "update_blocks"}
        /\ fetch_faults < MaxFetchFaults
        /\ fetch_faults' = fetch_faults + 1
        /\ consumers' = [consumers EXCEPT ![w].at = "except"]
        /\ UNCHANGED <<queue, unfinished_tasks, mev_added, requests>>
        /\ UnchangedByMevWorker

\* the queue calls of this worker and the joins of lines 260 to 266 are those
\* of fetch_block_data: TaskDone, ExceptTaskDone, Put, JoinConsumers, QueueJoin
NextMev ==
    \/ MevGet
    \/ FetchMevTransactions
    \/ UpdateBlocksWithMev
    \/ MevWorkerException
    \/ TaskDone
    \/ ExceptTaskDone
    \/ Put
    \/ JoinConsumers
    \/ QueueJoin

SpecMev == InitMev /\ [][NextMev]_vars

\* a request was answered whose range [block_number, block_number + count - 1]
\* holds the block
Requested(block) ==
    \E request \in requests :
        /\ request.block_number <= block
        /\ block <= request.block_number + request.count - 1

\* C28: a block is marked mev_added only if a ZeroMev request whose range
\* holds its number was answered and applied, for every interval of
\* consecutive blocks, the single block and the multiples of 100 included.
C28_MarkedOnlyIfRequested ==
    \A block \in mev_added : Requested(block)


\* the number of bridge lock events of the source transaction of a candidate
LockEvents(c) ==
    Len(EthereumReceipts[c.transaction_hash].locked_erc20)
        + Len(EthereumReceipts[c.transaction_hash].locked_mintable_erc20)

\* the candidate has a record in one of the two lists
Recorded(c) ==
    \/ \E i \in 1..Len(cross_chain_mev_extractions) :
           cross_chain_mev_extractions[i].ethereum_leg.transaction_hash
               = c.transaction_hash
    \/ \E i \in 1..Len(cross_chain_mev_failed) :
           cross_chain_mev_failed[i].ethereum_leg.transaction_hash
               = c.transaction_hash

\* the matcher is at the lookup of the bridge operation of a FROM_ETHEREUM
\* candidate that has no lock event or several
AtAmbiguousLock ==
    /\ pc = "bridge_info"
    /\ transaction.polygon_bridge_interaction = FROM_ETHEREUM
    /\ LockEvents(transaction) # 1

\* C30: a FROM_ETHEREUM candidate whose source transaction holds no lock
\* event or more than one never reaches a search on the Polygon chain and has
\* no record in either list; the step at the lookup of its bridge operation
\* either ends the candidate with EthereumServiceError, caught by the matcher
\* that goes on with the next candidate, or is a retry of the lookup after
\* another exception, which leaves the candidate where it is.
C30_LockLookupRejects ==
    /\ [](\A c \in Candidates :
              (c.polygon_bridge_interaction = FROM_ETHEREUM /\ LockEvents(c) # 1) =>
                  /\ SearchesOf(c) = <<>>
                  /\ ~Recorded(c)
                  /\ outcome[c.transaction_hash]
                         \in {"pending", "EthereumServiceError", "Exception"})
    /\ [][AtAmbiguousLock =>
              \/ /\ outcome'[transaction.transaction_hash] = "EthereumServiceError"
                 /\ pc' \in {"eth_swaps", "block"}
              \/ /\ pc' = "bridge_info"
                 /\ outcome' = outcome /\ bi' = bi /\ ti' = ti]_vars

\* the run has returned: both the candidate without a lock event and the one
\* with two were rejected, one of them after a retry of the lookup
C30_Witness ==
    /\ pc = "returned"
    /\ outcome["e0"] = "EthereumServiceError"
    /\ outcome["e2"] = "EthereumServiceError"
    /\ rpc_faults = 1

=============================================================================
